---- MODULE Spec2Model ----
(***************************************************************************)
(* filegen-backend: one HTTP endpoint that generates a document from a     *)
(* remote provider or a local template generator, cleans it (postProcess)  *)
(* and formats it as TXT / Markdown / CSV / PDF.                           *)
(*                                                                         *)
(* Text is modelled as TLA+ strings, one character per position; Ch(s, i)  *)
(* is the i-th character.  The lexer admits Latin-1 without the backtick,  *)
(* so four characters are written with a stand-in that occurs nowhere      *)
(* else: the backtick as "´", U+2026 (the ellipsis of the sentence         *)
(* splitter) as "¤", U+2014 (the dash of the templates) as "¯" and U+FEFF  *)
(* (the byte-order mark) as "¶".                                           *)
(***************************************************************************)
EXTENDS Integers, Sequences, FiniteSets, TLC

(* ----------------------------- characters ----------------------------- *)

Ch(s, i) == SubSeq(s, i, i)

Chars(s) == {Ch(s, i) : i \in 1..Len(s)}

LowerAscii == "abcdefghijklmnopqrstuvwxyz"
UpperAscii == "ABCDEFGHIJKLMNOPQRSTUVWXYZ"
Digits == "0123456789"

\* JS \w without the u flag: [A-Za-z0-9_] only.
WordChars == Chars(LowerAscii) \cup Chars(UpperAscii) \cup Chars(Digits) \cup {"_"}

IsWordChar(c) == c \in WordChars

\* JS \s restricted to the white space the model's texts contain.
WhiteSpace == {" ", "\t", "\n", "\r"}

IsSpace(c) == c \in WhiteSpace

\* Letters with a lower-case form: ASCII plus the accented capitals of the texts.
UpperLetters == UpperAscii \o "ÀÁÂÃÇÉÊÍÓÔÕÚ"
LowerLetters == LowerAscii \o "àáâãçéêíóôõú"

Lowered ==
  [c \in Chars(UpperLetters) |->
     Ch(LowerLetters, CHOOSE i \in 1..Len(UpperLetters) : Ch(UpperLetters, i) = c)]

LowerChar(c) == IF c \in DOMAIN Lowered THEN Lowered[c] ELSE c

(* Long texts would exhaust the evaluator's stack if every character cost *)
(* one level of recursion, so per-character rewrites are written as the    *)
(* sequence of pieces each position contributes, concatenated by halves.   *)

RECURSIVE CatRange(_, _, _)
CatRange(ps, lo, hi) ==
  IF lo > hi THEN ""
  ELSE IF lo = hi THEN ps[lo]
  ELSE LET m == (lo + hi) \div 2
       IN  CatRange(ps, lo, m) \o CatRange(ps, m + 1, hi)

\* The positions lo..hi whose flag is set, ascending.
RECURSIVE Where(_, _, _)
Where(flags, lo, hi) ==
  IF lo > hi THEN <<>>
  ELSE IF lo = hi THEN (IF flags[lo] THEN <<lo>> ELSE <<>>)
  ELSE LET m == (lo + hi) \div 2
       IN  Where(flags, lo, m) \o Where(flags, m + 1, hi)

Min(S) == CHOOSE x \in S : \A y \in S : x <= y

\* String.prototype.toLowerCase()
toLowerCase(s) == CatRange([i \in 1..Len(s) |-> LowerChar(Ch(s, i))], 1, Len(s))

\* String.prototype.slice(a, b) for 0 <= a, b (0-based, end exclusive).
Slice(s, a, b) ==
  LET e == IF b > Len(s) THEN Len(s) ELSE b
  IN  IF a >= e THEN "" ELSE SubSeq(s, a + 1, e)

From(s, i) == IF i > Len(s) THEN "" ELSE SubSeq(s, i, Len(s))

StartsWithAt(s, i, pat) ==
  /\ i >= 1
  /\ i + Len(pat) - 1 <= Len(s)
  /\ SubSeq(s, i, i + Len(pat) - 1) = pat

\* Case-insensitive match of pat at position i (regex flag i).
StartsWithAtCI(s, i, pat) ==
  /\ i >= 1
  /\ i + Len(pat) - 1 <= Len(s)
  /\ toLowerCase(SubSeq(s, i, i + Len(pat) - 1)) = toLowerCase(pat)

\* Least position >= i where pat occurs, 0 when there is none.
IndexOfFrom(s, pat, i) ==
  LET S == {j \in i..(Len(s) - Len(pat) + 1) : SubSeq(s, j, j + Len(pat) - 1) = pat}
  IN  IF S = {} THEN 0 ELSE Min(S)

\* String.prototype.includes(pat)
includes(s, pat) == IndexOfFrom(s, pat, 1) # 0

\* First position >= i that holds no white space (Len(s) + 1 when none).
RECURSIVE SkipSpace(_, _)
SkipSpace(s, i) ==
  IF i <= Len(s) /\ IsSpace(Ch(s, i)) THEN SkipSpace(s, i + 1) ELSE i

\* Least a >= lo such that s[a..i-1] is white space only (i when s[i-1] is none).
RECURSIVE SpaceRunStart(_, _, _)
SpaceRunStart(s, i, lo) ==
  IF i > lo /\ IsSpace(Ch(s, i - 1)) THEN SpaceRunStart(s, i - 1, lo) ELSE i

\* First position >= i that holds no \w character.
RECURSIVE SkipWord(_, _)
SkipWord(s, i) ==
  IF i <= Len(s) /\ IsWordChar(Ch(s, i)) THEN SkipWord(s, i + 1) ELSE i

\* Start of the \w run that holds position i.
RECURSIVE WordStart(_, _)
WordStart(s, i) ==
  IF i > 1 /\ IsWordChar(Ch(s, i - 1)) THEN WordStart(s, i - 1) ELSE i

RECURSIVE TrimEndPos(_, _)
TrimEndPos(s, j) ==
  IF j >= 1 /\ IsSpace(Ch(s, j)) THEN TrimEndPos(s, j - 1) ELSE j

\* String.prototype.trim()
trim(s) ==
  LET a == SkipSpace(s, 1)
      b == TrimEndPos(s, Len(s))
  IN  IF a > b THEN "" ELSE SubSeq(s, a, b)

\* Array.prototype.join(sep) on strings
RECURSIVE JoinRange(_, _, _, _)
JoinRange(xs, sep, lo, hi) ==
  IF lo > hi THEN ""
  ELSE IF lo = hi THEN xs[lo]
  ELSE LET m == (lo + hi) \div 2
       IN  JoinRange(xs, sep, lo, m) \o sep \o JoinRange(xs, sep, m + 1, hi)

join(xs, sep) == JoinRange(xs, sep, 1, Len(xs))

\* String.prototype.split(/\s+/): the runs between white space, with an empty
\* first (last) token when the text starts (ends) with white space.
split(s) ==
  LET n == Len(s)
      starts == Where([i \in 1..n |-> ~IsSpace(Ch(s, i)) /\ (i = 1 \/ IsSpace(Ch(s, i - 1)))], 1, n)
      spaces == {j \in 1..n : IsSpace(Ch(s, j))}
      tokenAt(i) == LET later == {j \in spaces : j > i}
                    IN  SubSeq(s, i, IF later = {} THEN n ELSE Min(later) - 1)
      words == [k \in 1..Len(starts) |-> tokenAt(starts[k])]
  IN  IF n = 0 THEN <<"">>
      ELSE (IF IsSpace(Ch(s, 1)) THEN <<"">> ELSE <<>>)
             \o words
             \o (IF IsSpace(Ch(s, n)) THEN <<"">> ELSE <<>>)


(***************************************************************************)
(* JSON values of a request body and the JavaScript coercions the handlers *)
(* apply to them.  A body is a function from the names of the fields it    *)
(* holds to their values; a field the body does not hold is undefined, and *)
(* only then does a destructuring default apply.                           *)
(***************************************************************************)

Undefined == [type |-> "undefined"]
Null == [type |-> "null"]
Str(s) == [type |-> "string", str |-> s]
Num(n) == [type |-> "number", num |-> n]
\* The number JSON.parse reads from a literal past the double range (1e999).
Infinity == [type |-> "number", num |-> 0, inf |-> TRUE]
Bool(b) == [type |-> "boolean", bool |-> b]
\* An array of strings, and an object literal.
Arr(xs) == [type |-> "array", items |-> xs]
Obj == [type |-> "object"]

\* An object that has no primitive value, as JSON.parse('{"toString":null}')
\* gives: String(v), a template literal and a property key made of it
\* throw a TypeError.
Unprintable == [type |-> "object", unprintable |-> TRUE]

\* const { name = default } = req.body || {}
Field(b, name, default) == IF name \in DOMAIN b THEN b[name] ELSE default

\* Decimal digits of a natural number.
RECURSIVE Decimal(_)
Decimal(n) ==
  IF n < 10 THEN SubSeq("0123456789", n + 1, n + 1)
  ELSE Decimal(n \div 10) \o SubSeq("0123456789", (n % 10) + 1, (n % 10) + 1)

\* String(v), also the conversion of a template literal and of a property key
ToStr(v) ==
  CASE v.type = "string" -> v.str
    [] v.type = "number" -> IF v = Infinity THEN "Infinity"
                            ELSE IF v.num < 0 THEN "-" \o Decimal(-v.num) ELSE Decimal(v.num)
    [] v.type = "boolean" -> IF v.bool THEN "true" ELSE "false"
    [] v.type = "null" -> "null"
    [] v.type = "undefined" -> "undefined"
    [] v.type = "array" -> join(v.items, ",")
    [] v.type = "object" -> "[object Object]"

\* ToBoolean(v): the test of v ? a : b, v || d and !v
Truthy(v) ==
  CASE v.type = "string" -> v.str # ""
    [] v.type = "number" -> v = Infinity \/ v.num # 0
    [] v.type = "boolean" -> v.bool
    [] v.type \in {"null", "undefined"} -> FALSE
    [] v.type \in {"array", "object"} -> TRUE

\* a || b
Or(a, b) == IF Truthy(a) THEN a ELSE b

NaN == [nan |-> TRUE, inf |-> FALSE, num |-> 0]
Finite(n) == [nan |-> FALSE, inf |-> FALSE, num |-> n]
PositiveInfinity == [nan |-> FALSE, inf |-> TRUE, num |-> 0]

\* Value of a string of decimal digits.
RECURSIVE DigitsValue(_)
DigitsValue(s) ==
  IF s = "" THEN 0
  ELSE 10 * DigitsValue(SubSeq(s, 1, Len(s) - 1))
         + (CHOOSE d \in 0..9 : Ch(Digits, d + 1) = Ch(s, Len(s)))

\* Number(s) of a string: white space around it is dropped, the empty string
\* is 0, an integer literal is its value, "Infinity" is Infinity and a string
\* that is no numeric literal is NaN (literals with a fraction, an exponent or
\* a radix prefix are not among the strings drawn).
StringToNumber(s) ==
  LET t == trim(s)
      neg == t # "" /\ Ch(t, 1) = "-"
      d == IF neg THEN From(t, 2) ELSE t
  IN  IF t = "" THEN Finite(0)
      ELSE IF t \in {"Infinity", "+Infinity"} THEN PositiveInfinity
      ELSE IF d # "" /\ \A i \in 1..Len(d) : Ch(d, i) \in Chars(Digits)
      THEN Finite(IF neg THEN -DigitsValue(d) ELSE DigitsValue(d))
      ELSE NaN

\* Number(v), also the conversion < and <= apply to a non-number operand
ToNumber(v) ==
  CASE v.type = "number" -> IF v = Infinity THEN PositiveInfinity ELSE Finite(v.num)
    [] v.type = "string" -> StringToNumber(v.str)
    [] v.type = "boolean" -> Finite(IF v.bool THEN 1 ELSE 0)
    [] v.type = "null" -> Finite(0)
    [] v.type = "undefined" -> NaN
    [] v.type = "array" -> StringToNumber(join(v.items, ","))
    [] v.type = "object" -> NaN

\* Number(v) || d, for a finite Number(v)
NumberOr(v, d) ==
  LET n == ToNumber(v) IN IF n.nan \/ n.num = 0 THEN d ELSE n.num

\* k < v and k <= v for a number k (false when v is NaN)
Less(k, v) == LET n == ToNumber(v) IN ~n.nan /\ (n.inf \/ k < n.num)
LessEq(k, v) == LET n == ToNumber(v) IN ~n.nan /\ (n.inf \/ k <= n.num)

\* The end index Array.prototype.slice(0, v) uses on an array of len entries.
SliceEnd(len, v) ==
  LET n == ToNumber(v)
  IN  IF n.nan THEN 0
      ELSE IF n.inf THEN len
      ELSE IF n.num < 0 THEN (IF len + n.num < 0 THEN 0 ELSE len + n.num)
      ELSE IF n.num > len THEN len
      ELSE n.num

\* xs.slice(0, v)
Take(xs, v) == SubSeq(xs, 1, SliceEnd(Len(xs), v))

\* s.split(','): the pieces between commas.
splitComma(s) ==
  LET n == Len(s)
      commas == Where([i \in 1..n |-> Ch(s, i) = ","], 1, n)
      k == Len(commas)
      lo(j) == IF j = 1 THEN 1 ELSE commas[j - 1] + 1
      hi(j) == IF j = k + 1 THEN n ELSE commas[j] - 1
  IN  [j \in 1..(k + 1) |-> IF lo(j) > hi(j) THEN "" ELSE SubSeq(s, lo(j), hi(j))]

\* xs.filter(Boolean) on strings
nonEmpty(xs) ==
  LET keep == Where([i \in 1..Len(xs) |-> xs[i] # ""], 1, Len(xs))
  IN  [j \in 1..Len(keep) |-> xs[keep[j]]]

\* String(s || '').split(',').map(x => x.trim()).filter(Boolean)
ensureArrayFromCsv(v) ==
  LET parts == splitComma(ToStr(Or(v, Str(""))))
  IN  nonEmpty([j \in 1..Len(parts) |-> trim(parts[j])])

\* `"${String(x).replace(/"/g,'""')}"`
csvCell(x) ==
  "\"" \o CatRange([i \in 1..Len(x) |-> IF Ch(x, i) = "\"" THEN "\"\"" ELSE Ch(x, i)], 1, Len(x)) \o "\""

\* rows.map(r => r.map(cell).join(',')).join('\n')
csvRows(rows) ==
  join([i \in 1..Len(rows) |-> join([j \in 1..Len(rows[i]) |-> csvCell(rows[i][j])], ",")], "\n")

(***************************************************************************)
(* Text helpers shared by the full server variants.                        *)
(***************************************************************************)

\* Three backticks (the backtick is written "´").
Fence == "´´´"

\* The byte-order mark '\uFEFF' the CSV branch prepends (written "¶").
BOM == "¶"

\* s.match(/```(?:csv)?\s*([\s\S]*?)```/i): the capture, trimmed, else s.trim()
extractCsvFromMarkdown(s) ==
  IF s = "" THEN ""
  ELSE LET o == IndexOfFrom(s, Fence, 1)
           a == o + 3
           b == IF StartsWithAtCI(s, a, "csv") THEN a + 3 ELSE a
           c == SkipSpace(s, b)
           j == IF o = 0 THEN 0 ELSE IndexOfFrom(s, Fence, c)
       IN  IF j = 0 THEN trim(s) ELSE trim(SubSeq(s, c, j - 1))

\* csvString.replace(/\r?\n/g, '\r\n')
toCrLf(s) ==
  LET n == Len(s)
      piece(p) == IF Ch(s, p) = "\n" THEN "\r\n"
                  ELSE IF Ch(s, p) = "\r" /\ p < n /\ Ch(s, p + 1) = "\n" THEN ""
                  ELSE Ch(s, p)
  IN  CatRange([p \in 1..n |-> piece(p)], 1, n)

\* A CSV buffer without the byte-order mark: a faulty encoder, which the CSV
\* property tells from the real one.
toCsvWithoutBom(s) == toCrLf(s)

\* function toCsvUtf8Bom(csvString): the BOM, then the text with CRLF line ends
toCsvUtf8Bom(s) == BOM \o toCrLf(s)

\* content.replace(/```(?:markdown)?\s*|\s*```/gi, ''), resumed at position i:
\* up to the next fence nothing matches but the white space in front of it.
RECURSIVE stripMdFences(_, _)
stripMdFences(s, i) ==
  LET r == IndexOfFrom(s, Fence, i)
      a == SpaceRunStart(s, r, i)
      b == IF StartsWithAtCI(s, r + 3, "markdown") THEN r + 11 ELSE r + 3
  IN  IF r = 0 THEN From(s, i)
      ELSE IF a < r THEN Slice(s, i - 1, a - 1) \o stripMdFences(s, r + 3)
      ELSE Slice(s, i - 1, r - 1) \o stripMdFences(s, SkipSpace(s, b))

mdClean(s) == stripMdFences(s, 1)

\* s.replace(/[ \t]+/g, ' ')
collapseBlanks(s) ==
  LET n == Len(s)
      blank(p) == Ch(s, p) \in {" ", "\t"}
      piece(p) == IF ~blank(p) THEN Ch(s, p)
                  ELSE IF p > 1 /\ blank(p - 1) THEN "" ELSE " "
  IN  CatRange([p \in 1..n |-> piece(p)], 1, n)

\* s.replace(/\s+\n/g, '\n'): of a white-space run, everything up to its last
\* line feed (at least one character before it) becomes one line feed.
stripBeforeNewline(s) ==
  LET n == Len(s)
      piece(p) ==
        IF ~IsSpace(Ch(s, p)) THEN Ch(s, p)
        ELSE LET a == SpaceRunStart(s, p, 1)
                 e == SkipSpace(s, p)
                 N == {j \in a..(e - 1) : Ch(s, j) = "\n"}
                 j == IF N = {} THEN 0 ELSE CHOOSE x \in N : \A y \in N : y <= x
             IN  IF j <= a THEN Ch(s, p)
                 ELSE IF p = a THEN "\n"
                 ELSE IF p <= j THEN ""
                 ELSE Ch(s, p)
  IN  CatRange([p \in 1..n |-> piece(p)], 1, n)

normalizeSpaces(s) == trim(stripBeforeNewline(collapseBlanks(s)))

\* U+2026, the horizontal ellipsis (written "¤").
Ellipsis == "¤"

Terminators == {".", "!", "?", Ellipsis}

\* String(s).match(/[^.!?…]+[.!?…]?/g) || []: each run of non-terminators
\* with the terminator that follows it.
sentenceParts(s) ==
  LET n == Len(s)
      term(p) == Ch(s, p) \in Terminators
      starts == Where([i \in 1..n |-> ~term(i) /\ (i = 1 \/ term(i - 1))], 1, n)
      terms == {j \in 1..n : term(j)}
      partAt(i) == LET later == {j \in terms : j > i}
                   IN  SubSeq(s, i, IF later = {} THEN n ELSE Min(later))
  IN  IF Len(starts) = 0 THEN <<>>
      ELSE [k \in 1..Len(starts) |-> partAt(starts[k])]

\* s.replace(/\s+/g, ' ')
collapseSpace(s) ==
  LET n == Len(s)
      piece(p) == IF ~IsSpace(Ch(s, p)) THEN Ch(s, p)
                  ELSE IF p > 1 /\ IsSpace(Ch(s, p - 1)) THEN "" ELSE " "
  IN  CatRange([p \in 1..n |-> piece(p)], 1, n)

\* const key = seg.replace(/\s+/g,' ').trim().toLowerCase()
sentenceKey(seg) == toLowerCase(trim(collapseSpace(seg)))

\* The loop body without seen.add(key): a faulty de-duplication, which the
\* first-occurrence property tells from the real one.
dedupeStepForgetful(st, seg) ==
  IF sentenceKey(seg) # "" THEN [seen |-> st.seen, out |-> Append(st.out, trim(seg))] ELSE st

\* Body of the for loop of dedupeSentences; st = [seen, out].
dedupeStep(st, seg) ==
  LET key == sentenceKey(seg)
  IN  IF key # "" /\ key \notin st.seen
      THEN [seen |-> st.seen \cup {key}, out |-> Append(st.out, trim(seg))]
      ELSE st

\* The for loop over parts[lo..hi], run by halves; the state after the first
\* half is computed (its length taken) before the second half starts.
RECURSIVE dedupeLoop(_, _, _, _)
dedupeLoop(parts, lo, hi, st) ==
  IF lo > hi THEN st
  ELSE IF lo = hi THEN dedupeStep(st, parts[lo])
  ELSE LET m == (lo + hi) \div 2
           half == dedupeLoop(parts, lo, m, st)
       IN  IF Len(half.out) >= 0 THEN dedupeLoop(parts, m + 1, hi, half) ELSE half

keptSentences(s) ==
  LET parts == sentenceParts(s)
  IN  dedupeLoop(parts, 1, Len(parts), [seen |-> {}, out |-> <<>>]).out

dedupeSentences(s) == join(keptSentences(s), " ")

\* out.replace(/```[\s\S]*?```/g, m => m.includes('csv') ? m : ''), from i on
RECURSIVE stripFences(_, _)
stripFences(s, i) ==
  LET o == IndexOfFrom(s, Fence, i)
      c == IF o = 0 THEN 0 ELSE IndexOfFrom(s, Fence, o + 3)
      m == SubSeq(s, o, c + 2)
  IN  IF c = 0 THEN From(s, i)
      ELSE Slice(s, i - 1, o - 1)
             \o (IF includes(m, "csv") THEN m ELSE "")
             \o stripFences(s, c + 3)

\* A \w run starting at i is swallowed by /\b(\w+)(\s+\1){1,}\b/gi when the
\* \w run before it is the same word (ignoring case) with only white space
\* between the two.
Swallowed(s, i) ==
  LET a == SpaceRunStart(s, i, 1)
  IN  /\ a < i
      /\ a > 1
      /\ IsWordChar(Ch(s, a - 1))
      /\ toLowerCase(SubSeq(s, WordStart(s, a - 1), a - 1))
           = toLowerCase(SubSeq(s, i, SkipWord(s, i) - 1))

\* out.replace(/\b(\w+)(\s+\1){1,}\b/gi, '$1')
collapseWords(s) ==
  LET n == Len(s)
      piece(p) ==
        IF IsWordChar(Ch(s, p))
        THEN (IF Swallowed(s, WordStart(s, p)) THEN "" ELSE Ch(s, p))
        ELSE IF IsSpace(Ch(s, p))
        THEN LET b == SkipSpace(s, p)
             IN  IF b <= n /\ IsWordChar(Ch(s, b)) /\ Swallowed(s, b)
                 THEN "" ELSE Ch(s, p)
        ELSE Ch(s, p)
  IN  CatRange([p \in 1..n |-> piece(p)], 1, n)

\* function postProcess(content, format)
postProcess(content, format) ==
  IF format = Str("csv") THEN content
  ELSE normalizeSpaces(dedupeSentences(collapseWords(stripFences(content, 1))))

(***************************************************************************)
(* Local generators.  The em dash of the templates is written "¯".         *)
(***************************************************************************)

\* Property lookup map[key] || fallback in an object literal of strings.
Lookup(map, key, fallback) ==
  IF ToStr(key) \in DOMAIN map THEN map[ToStr(key)] ELSE fallback

\* function langName(code)
langName(code) ==
  Lookup([pt |-> "Portuguese", en |-> "English", es |-> "Spanish", fr |-> "French",
          de |-> "German", it |-> "Italian", ja |-> "Japanese", ko |-> "Korean",
          zh |-> "Chinese", hi |-> "Hindi", ar |-> "Arabic"], code, "Portuguese")

\* { pt: 'em Português', en: 'in English', es: 'en Español' }[language] || 'em Português'
lingua(language) ==
  Lookup([pt |-> "em Português", en |-> "in English", es |-> "en Español"],
         language, "em Português")

\* pov === 'first' ? 'first-person' : pov === 'second' ? 'second-person' : 'third-person'
povName(pov) ==
  IF pov = Str("first") THEN "first-person"
  ELSE IF pov = Str("second") THEN "second-person"
  ELSE "third-person"

\* The rows a local generator answers a 'planilha' request with.
planilhaRows(keywords) ==
  LET kw == ToStr(Or(keywords, Str("")))
  IN  csvRows(<< <<"Titulo", "Resumo", "PalavrasChave">>,
                 <<"Item 1", "Descrição breve 1", kw>>,
                 <<"Item 2", "Descrição breve 2", kw>>,
                 <<"Item 3", "Descrição breve 3", kw>> >>)

\* Number of rounds of  while (out.length < words) out.push(...)  from an
\* empty array, when there is an end to them: words is not Infinity.
pushCount(words) ==
  LET n == ToNumber(words) IN IF n.nan \/ n.num <= 0 THEN 0 ELSE n.num

\* s.repeat(n)
repeat(s, n) == CatRange([j \in 1..n |-> s], 1, n)

\* Math.ceil(a / b) for a >= 0, b > 0
CeilDiv(a, b) == (a + b - 1) \div b

\* Math.max(30, Math.min(5000, Number(length) || 200))
alvo(length) ==
  LET n == IF ToNumber(length).inf THEN 5000 ELSE NumberOr(length, 200)
      m == IF n > 5000 THEN 5000 ELSE n
  IN  IF m < 30 THEN 30 ELSE m

\* function gerarLocal of the word-count server
gerarLocalWords(b) ==
  LET language == Field(b, "language", Str("pt"))
      targetCountry == Field(b, "targetCountry", Str("Brasil"))
      words == Field(b, "words", Num(800))
      style == Field(b, "style", Str("informativo"))
      tone == Field(b, "tone", Str("casual"))
      pov == Field(b, "pov", Str("first"))
      contentType == Field(b, "contentType", Str("plain"))
      topic == Field(b, "topic", Str(""))
      keywords == Field(b, "keywords", Str(""))
      header == "(" \o langName(language) \o ", target: " \o ToStr(targetCountry)
                  \o ", style: " \o ToStr(style) \o ", tone: " \o ToStr(tone)
                  \o ", " \o povName(pov) \o ")"
      assunto == IF Truthy(topic) THEN " Topic: " \o ToStr(topic) \o "." ELSE ""
      kws == IF Truthy(keywords) THEN " Keywords: " \o ToStr(keywords) \o "." ELSE ""
      bag == join(<<"High-level overview " \o header \o ".",
                    "Key points explained clearly.",
                    "Practical examples to illustrate ideas.",
                    "Actionable recommendations.",
                    "Nuanced perspective to avoid repetition.",
                    "Smooth transitions between sections.">>, " ")
      base == bag \o assunto \o kws \o " "
      wordsArr == split(base)
      n == pushCount(words)
      out == [k \in 1..n |-> wordsArr[((k - 1) % Len(wordsArr)) + 1]]
  IN  IF contentType = Str("planilha") THEN planilhaRows(keywords)
      ELSE postProcess(join(Take(out, words), " "), Str("txt"))

\* The seeds gerarLocal of the character-count server appends in turn.
seeds ==
  <<"Introdução objetiva ao tema.",
    "Pontos principais apresentados com clareza.",
    "Exemplos práticos para facilitar a compreensão.",
    "Recomendações finais e próximos passos.">>

\* Length of  ' ' + seeds[i++ % seeds.length]  appended k times.
RECURSIVE seedsLen(_)
seedsLen(k) ==
  IF k = 0 THEN 0
  ELSE IF k > Len(seeds) THEN seedsLen(Len(seeds)) * (k \div Len(seeds)) + seedsLen(k % Len(seeds))
  ELSE seedsLen(k - 1) + 1 + Len(seeds[k])

\* let i = 0; while (out.length < alvo) out += ' ' + seeds[i++ % seeds.length]
\* stops after the least number k of rounds that reaches alvo.
padWithSeeds(out, target) ==
  LET k == Min({j \in 0..target : Len(out) + seedsLen(j) >= target})
  IN  out \o CatRange([j \in 1..k |-> " " \o seeds[((j - 1) % Len(seeds)) + 1]], 1, k)

\* function gerarLocal of the character-count server
gerarLocalChars(b) ==
  LET language == Field(b, "language", Str("pt"))
      length == Field(b, "length", Num(200))
      tone == ToStr(Field(b, "tone", Str("casual")))
      contentType == Field(b, "contentType", Str("plain"))
      topic == Field(b, "topic", Str(""))
      keywords == Field(b, "keywords", Str(""))
      lng == lingua(language)
      assunto == IF Truthy(topic) THEN "Tema: " \o ToStr(topic) \o ". " ELSE ""
      kws == IF Truthy(keywords) THEN "Palavras-chave: " \o ToStr(keywords) \o ". " ELSE ""
      out ==
        IF contentType = Str("blog")
        THEN "# Título do Post (" \o lng \o ")\n\n## Introdução\n" \o assunto \o kws
               \o "Conteúdo " \o tone \o ".\n\n## Seção\nTexto.\n\n## Conclusão\nEncerramento. "
        ELSE IF contentType = Str("resumo")
        THEN "Resumo (" \o lng \o ") ¯ " \o assunto \o kws
               \o "Síntese objetiva em tom " \o tone \o ". "
        ELSE IF contentType = Str("email")
        THEN "Assunto: " \o ToStr(Or(topic, Str("Assunto"))) \o "\n\nPrezados,\n\n" \o kws
               \o "Mensagem em tom " \o tone \o ".\n\nAtenciosamente,\nSeu Nome"
        ELSE IF contentType = Str("social")
        THEN "Post (" \o lng \o ") ¯ " \o assunto \o kws
               \o "Mensagem curta em tom " \o tone \o ". "
        ELSE "Texto (" \o lng \o "). " \o assunto \o kws \o "Conteúdo " \o tone \o ". "
  IN  IF contentType = Str("planilha") THEN planilhaRows(keywords)
      ELSE postProcess(Slice(padWithSeeds(out, alvo(length)), 0, alvo(length)), Str("txt"))

\* function gerarTexto of the TXT/PDF servers
gerarTexto(b) ==
  LET language == Field(b, "language", Str("pt"))
      length == Field(b, "length", Num(200))
      tone == Field(b, "tone", Str("casual"))
      base == IF tone = Str("professional") THEN "Conteúdo profissional" ELSE "Conteúdo casual"
      texto == repeat(base \o " " \o lingua(language) \o ". ", CeilDiv(alvo(length), 30))
  IN  Slice(texto, 0, alvo(length))

\* function gerarTextoLocal of the TXT/PDF server with optional provider
gerarTextoLocal(b) ==
  LET language == Field(b, "language", Str("pt"))
      length == Field(b, "length", Num(200))
      tone == Field(b, "tone", Str("casual"))
      topic == Field(b, "topic", Str(""))
      keywords == Field(b, "keywords", Str(""))
      base == IF tone = Str("professional") THEN "Conteúdo profissional" ELSE "Conteúdo casual"
      kw == ensureArrayFromCsv(keywords)
      assunto == IF Truthy(topic) THEN " Tema: " \o ToStr(topic) \o "." ELSE ""
      kws == IF Len(kw) > 0
             THEN " Palavras-chave: " \o join(SubSeq(kw, 1, IF Len(kw) > 8 THEN 8 ELSE Len(kw)), ", ") \o "."
             ELSE ""
      bloco == base \o " " \o lingua(language) \o "." \o assunto \o kws \o " "
      unit == IF Len(bloco) < 20 THEN 20 ELSE Len(bloco)
  IN  Slice(repeat(bloco, CeilDiv(alvo(length), unit)), 0, alvo(length))

(***************************************************************************)
(* SEO servers: secondary keywords and the local article, text and CSV.    *)
(***************************************************************************)

\* minSec, the least number of secondary keywords an article is written for.
minSec == 8

\* The generic terms localSecondaryKeywords appends, first and second server.
genericTerms ==
  <<"apresentação", "benefícios", "estratégias", "práticas recomendadas",
    "otimização", "tendências", "métricas", "exemplos">>

genericTerms2 ==
  <<"guia", "dicas", "estratégias", "tendências", "vantagens", "como fazer",
    "exemplos", "melhores práticas", "otimização", "resultados">>

\* function localSecondaryKeywords({ primaryKeyword, topic, min }), pool being
\* the server's generic terms
localSecondaryKeywords(pool, primaryKeyword, topic, min) ==
  LET base == nonEmpty(ensureArrayFromCsv(primaryKeyword) \o ensureArrayFromCsv(topic) \o pool)
  IN  [i \in 1..min |-> IF i <= Len(base) THEN base[i]
                        ELSE "palavra-chave-extra-" \o Decimal(i)]

\* Array.isArray(secondaryKeywords) ? secondaryKeywords : ensureArrayFromCsv(secondaryKeywords)
secListIn(secondaryKeywords) ==
  IF secondaryKeywords.type = "array" THEN secondaryKeywords.items
  ELSE ensureArrayFromCsv(secondaryKeywords)

\* The keywords generateSecondaryKeywords takes from the provider's text:
\* the list when it holds at least min entries, else none (local fallback).
keywordsFromReply(text, min) ==
  LET arr == ensureArrayFromCsv(Str(text))
  IN  IF Len(arr) >= min THEN arr ELSE <<>>

\* function localBlogMarkdown of the first SEO server
localBlogMarkdown(b, secondaryList) ==
  LET language == Field(b, "language", Str("pt"))
      targetCountry == Field(b, "targetCountry", Str("Brasil"))
      style == Field(b, "style", Str("informativo"))
      tone == Field(b, "tone", Str("casual"))
      pov == Field(b, "pov", Str("first"))
      topic == Field(b, "topic", Str(""))
      primaryKeyword == Field(b, "primaryKeyword", Str(""))
      words == Field(b, "words", Num(800))
      H1 == "# " \o ToStr(Or(topic, Or(primaryKeyword, Str("Título do Artigo (SEO)"))))
      meta == IF Truthy(primaryKeyword)
              THEN "> **Palavra-chave principal:** " \o ToStr(primaryKeyword) ELSE ""
      intro == "**Introdução** ¯ contexto em **" \o ToStr(targetCountry) \o "**, idioma **"
                 \o ToStr(language) \o "**, estilo **" \o ToStr(style) \o "**, tom **"
                 \o ToStr(tone) \o "**, ponto de vista **" \o ToStr(pov) \o "**."
      corpo == join(<<"## Visão Geral",
                      "### Contexto",
                      "Texto introdutório com **termos importantes** e ligação ao problema do leitor.",
                      "### Benefícios",
                      "Lista de vantagens e valor para o público-alvo com **ganhos concretos**.",
                      "## Como Fazer (Passo a Passo)",
                      "### Passo 1",
                      "Instruções claras, com **palavras-chave** relacionadas de forma natural.",
                      "### Passo 2",
                      "Mais instruções com foco em **resultado** e **clareza**.",
                      "## Erros Comuns",
                      "**Evite** armadilhas e explique o porquê, sempre com alternativas.">>, "\n\n")
      secaoKeywords ==
        join(<<"## Palavras-chave Secundárias">>
               \o [i \in 1..Len(secondaryList) |->
                     "**" \o secondaryList[i]
                       \o "** ¯ Parágrafo otimizado para SEO, denso em informação, natural e sem repetição."],
             "\n\n")
      dicas == join(<<"## Dicas",
                      "- **Estruture** o conteúdo com subtítulos descritivos.",
                      "- **Varie** o vocabulário e evite repetição.",
                      "- **Inclua** exemplos e casos práticos.",
                      "- **Use** ligações internas e externas relevantes.">>, "\n")
      faq == join(<<"## FAQ",
                    "### 1) Qual é o objetivo principal?",
                    "Responder em **linguagem clara** e objetiva.",
                    "### 2) Como medir resultados?",
                    "Aponte **métricas** e ferramentas.",
                    "### 3) Quais os erros comuns?",
                    "**Liste** problemas e **soluções**.",
                    "### 4) Como aprofundar?",
                    "Sugira **leituras** e próximos **passos**.">>, "\n\n")
      all == join(<<H1, meta, "", intro, "", corpo, "", secaoKeywords, "", dicas, "",
                    "## Conclusão", "Resumo final com **call to action**.", "", faq>>, "\n")
      tokens == split(all)
  IN  IF LessEq(Len(tokens), words) THEN all
      ELSE join(Take(tokens, words), " ")

\* The local CSV of gerarConteudo (first SEO server).
localCsv(finalSec) ==
  csvRows(<< <<"SecondaryKeyword", "Paragraph">> >>
            \o [i \in 1..Len(finalSec) |->
                  <<finalSec[i],
                    "**" \o finalSec[i] \o "** ¯ Parágrafo otimizado para SEO, natural e sem repetição.">>])

\* function localCsvFromKeywords(secList, words) of the second SEO server
localCsvFromKeywords(secList) ==
  csvRows(<< <<"SecondaryKeyword", "Paragraph">> >>
            \o [i \in 1..Len(secList) |->
                  <<secList[i],
                    secList[i] \o " ¯ Parágrafo otimizado para SEO, linguagem natural, sem repetição, cobrindo nuances relevantes.">>])

\* extras[i].replace(/\.$/, '') for the four extras of localTextFromKeywords
extras ==
  <<"Detalhamento adicional", "Exemplo prático", "Recomendações finais", "Observações úteis">>

\* function localTextFromKeywords of the second SEO server
localTextFromKeywords(b, secList) ==
  LET language == Field(b, "language", Str("pt"))
      targetCountry == Field(b, "targetCountry", Str("Brasil"))
      style == Field(b, "style", Str("informativo"))
      tone == Field(b, "tone", Str("casual"))
      pov == Field(b, "pov", Str("first"))
      topic == Field(b, "topic", Str(""))
      primaryKeyword == Field(b, "primaryKeyword", Str(""))
      words == Field(b, "words", Num(800))
      isMD == Field(b, "format", Str("txt")) = Str("md")
                \/ Field(b, "contentType", Str("plain")) = Str("blog")
      intro == "Introdução ¯ conteúdo SEO em " \o langName(language) \o ", alvo "
                 \o ToStr(targetCountry) \o ", estilo " \o ToStr(style) \o ", tom " \o ToStr(tone)
                 \o ", " \o povName(pov) \o ". "
                 \o (IF Truthy(primaryKeyword)
                     THEN "Palavra-chave principal: " \o ToStr(primaryKeyword) \o ". " ELSE "")
                 \o (IF Truthy(topic) THEN "Tema: " \o ToStr(topic) \o ". " ELSE "")
      paras == [i \in 1..Len(secList) |->
                  (IF isMD THEN "**" \o secList[i] \o "**" ELSE secList[i])
                    \o " ¯ Parágrafo otimizado para SEO em linguagem natural, sem repetição, trazendo variações e contexto relevante."]
      base == IF isMD
              THEN join(nonEmpty(<<"# " \o ToStr(Or(topic, Or(primaryKeyword, Str("Título (SEO)")))),
                                   IF Truthy(primaryKeyword)
                                   THEN "> Meta: " \o ToStr(primaryKeyword) ELSE "",
                                   "", intro, "">> \o paras), "\n\n")
              ELSE join(<<intro>> \o paras, "\n\n")
      tokens == split(base)
      n == ToNumber(words)
      missing == IF Less(Len(tokens), words) THEN n.num - Len(tokens) ELSE 0
      padded == tokens \o [i \in 1..missing |-> extras[((i - 1) % Len(extras)) + 1]]
  IN  join(Take(padded, words), " ")

(***************************************************************************)
(* The servers.  Each is one of the successive versions of the service:    *)
(*   "words"    generation by word count, provider optional                *)
(*   "chars"    generation by character count, provider optional           *)
(*   "seo"      SEO article (Markdown by default), provider optional       *)
(*   "seo2"     SEO text with internal fallback, provider optional         *)
(*   "minimal"  TXT/PDF only, no provider, the PDF piped to the response   *)
(*   "basic"    TXT/PDF only, no provider                                  *)
(*   "basicAI"  TXT/PDF only, provider optional                            *)
(* A server handles one request at a time.  A POST /api/generate that has  *)
(* passed the middleware goes from the parsed body to the response.        *)
(***************************************************************************)

VARIABLES
  variant,       \* the server that is running
  useAI,         \* !!process.env.OPENAI_API_KEY
  openaiClient,  \* TRUE when the provider's client was constructed at start-up
  pc,            \* where the handler is: idle, generate, keywords, content,
                 \* local, ready, rendering, done
  body,          \* req.body || {}
  finalSec,      \* the secondary keywords the SEO servers write for
  content,       \* the generated text
  source,        \* "none", "local" or "remote": where content came from
  calls,         \* the provider calls issued for this request, with replies
  res,           \* the response sent, NoResponse before
  envModel,      \* process.env.OPENAI_MODEL, "" when unset
  doc,           \* the PDF document of the request: "none", "open", then "ended" or
                 \* "errored" by its first callback and "closed" by the other one
  headersSent,   \* res.headersSent
  allowed,       \* ALLOWED_ORIGINS, split at commas
  hits,          \* the rate limiter's count of each client's requests in the window
  req,           \* the request last received, NoRequest before
  resCors,       \* the CORS headers of the response to it
  txt,           \* input of the text pipeline under study
  stage,         \* which step of the pipeline produced out
  out            \* output of that step

vars == <<variant, useAI, openaiClient, envModel, doc, pc, body, finalSec, content, source, calls, res,
          headersSent, allowed, hits, req, resCors, txt, stage, out>>

httpVars == <<allowed, hits, req, resCors>>

handlerVars == <<variant, useAI, openaiClient, envModel, doc, pc, body, finalSec, content, source, calls, res,
                 headersSent, httpVars>>

Variants == {"words", "chars", "seo", "seo2", "minimal", "basic", "basicAI"}
SeoVariants == {"seo", "seo2"}
ProviderVariants == Variants \ {"minimal", "basic"}

NoResponse == [status |-> 0]
Pending == [kind |-> "pending"]

\* Outcomes of openaiClient.chat.completions.create(...): it rejects, or it
\* resolves to a reply without message content, or to one with a text.
Throws == [kind |-> "throw"]
NoContent == [kind |-> "missing"]
Text(s) == [kind |-> "text", text |-> s]

\* resp?.choices?.[0]?.message?.content?.trim() || ''
trimmedText(r) == IF r.kind = "text" THEN trim(r.text) ELSE ""

\* resp?.choices?.[0]?.message?.content || ''
rawText(r) == IF r.kind = "text" THEN r.text ELSE ""

\* format = '...' and contentType = '...' of the handler's destructuring
formatOf(v, b) == Field(b, "format", Str(IF v = "seo" THEN "md" ELSE "txt"))
contentTypeOf(v, b) == Field(b, "contentType", Str(IF v = "seo" THEN "blog" ELSE "plain"))

\* format === 'csv' || contentType === 'planilha'
csvRequested(v, b) ==
  formatOf(v, b) = Str("csv") \/ contentTypeOf(v, b) = Str("planilha")

\* content.slice(0, e) for a number e
SliceTo(s, e) == IF e < 0 THEN Slice(s, 0, Len(s) + e) ELSE Slice(s, 0, e)

\* content.length > limit ? content.slice(0, limit) : content, limit = k * length
truncated(c, length, k) ==
  LET n == ToNumber(length)
  IN  IF ~n.nan /\ ~n.inf /\ Len(c) > k * n.num THEN SliceTo(c, k * n.num) ELSE c

\* A temperature, in tenths.
Tenths(n) == [type |-> "number", tenths |-> n]

\* The model of a create(...) call.  The character-count server and the
\* TXT/PDF server with provider do not read aiModel.
modelSent(v, b) ==
  IF v \in {"chars", "basicAI"} THEN Or(Str(envModel), Str("gpt-4o-mini"))
  ELSE Or(Or(Field(b, "aiModel", Undefined), Str(envModel)), Str("gpt-4o-mini"))

\* The temperature of a create(...) call: 0.7 for the keywords; for the
\* content the SEO servers pass the request's value on, the other servers
\* pass Math.max(0, Math.min(1, Number(temperature) || 0.8)).
temperatureSent(v, b, to) ==
  LET t == Field(b, "temperature", Undefined)
      n == ToNumber(t)
  IN  IF to = "keywords" THEN Tenths(7)
      ELSE IF t = Undefined THEN Tenths(8)
      ELSE IF v \in SeoVariants
      THEN (IF t.type = "number" /\ t # Infinity THEN Tenths(10 * t.num) ELSE t)
      ELSE IF n.nan \/ (~n.inf /\ n.num = 0) THEN Tenths(8)
      ELSE IF n.inf \/ n.num >= 1 THEN Tenths(10)
      ELSE Tenths(0)

\* openaiClient.chat.completions.create({ model, ..., temperature }), not
\* yet settled.
create(v, b, to) ==
  [to |-> to, reply |-> Pending, model |-> modelSent(v, b),
   temperature |-> temperatureSent(v, b, to)]

\* A local text that tells how the last provider call ended.
localContentAfterCalls(v, b, fs) ==
  IF calls # <<>> /\ calls[Len(calls)].reply = Throws THEN "erro" ELSE "texto"

\* What the server writes without the provider.
localContent(v, b, fs) ==
  CASE v = "words" -> gerarLocalWords(b)
    [] v = "chars" -> gerarLocalChars(b)
    [] v \in {"minimal", "basic"} -> gerarTexto(b)
    [] v = "basicAI" -> gerarTextoLocal(b)
    [] v = "seo" -> IF csvRequested(v, b) THEN localCsv(fs)
                    ELSE localBlogMarkdown(b, fs)
    [] v = "seo2" -> IF csvRequested(v, b) THEN localCsvFromKeywords(fs)
                     ELSE localTextFromKeywords(b, fs)

\* TRUE when a loop of the local generator has no end: the guards
\* out.length < words  and  tokens.length < words  stay true for a words that
\* converts to Infinity.  The other loops count to a clamped or fixed number.
localDiverges(v, b) ==
  /\ ToNumber(Field(b, "words", Num(800))).inf
  /\ \/ (v = "words" /\ contentTypeOf(v, b) # Str("planilha"))
     \/ (v = "seo2" /\ ~csvRequested(v, b))

\* TRUE when reply r makes the server fall back to its local generator:
\* A handler that takes whatever the call left, a rejection included.
neverFallsBack(v, b, r) == FALSE

\* gerarIA / gerarTextoIA throw on a rejection and on an empty text; the SEO
\* servers catch a rejection on both paths and test the text on the text
\* path only.
fallsBack(v, b, r) ==
  IF v \in SeoVariants /\ csvRequested(v, b) THEN r.kind = "throw"
  ELSE r.kind = "throw" \/ trimmedText(r) = ""

\* The text the server takes from reply r when it does not fall back.
remoteContent(v, b, r) ==
  CASE v = "words" -> trimmedText(r)
    [] v = "chars" -> truncated(trimmedText(r), Field(b, "length", Num(200)), 2)
    [] v = "basicAI" -> truncated(trimmedText(r), Field(b, "length", Num(200)), 1)
    [] v \in SeoVariants -> IF csvRequested(v, b) THEN extractCsvFromMarkdown(rawText(r))
                            ELSE trimmedText(r)

\* TRUE when the server asks the provider for the content of this request.
asksProvider(v, b) ==
  CASE v \in {"words", "chars"} -> openaiClient
    [] v = "basicAI" -> useAI /\ openaiClient
    [] v \in {"minimal", "basic"} -> FALSE
    [] v = "seo" -> /\ openaiClient
                    /\ \/ csvRequested(v, b)
                       \/ contentTypeOf(v, b) = Str("blog")
                       \/ formatOf(v, b) \in {Str("md"), Str("pdf"), Str("txt")}
    [] v = "seo2" -> openaiClient

\* A sanitiser that replaces white space only: a faulty one, which the
\* file-name property tells from the real one.
sanitizeSpaces(s) ==
  CatRange([i \in 1..Len(s) |-> IF IsSpace(Ch(s, i)) THEN "_" ELSE Ch(s, i)], 1, Len(s))

\* String(filename || fallback).replace(/[^\w.\-]/g, '_')
sanitize(s) ==
  CatRange([i \in 1..Len(s) |->
              IF IsWordChar(Ch(s, i)) \/ Ch(s, i) \in {".", "-"} THEN Ch(s, i) ELSE "_"],
           1, Len(s))

\* The default the handler sanitises when the body holds no usable filename.
defaultName(v, format) ==
  CASE v \in {"words", "chars", "seo2"} -> "arquivo.txt"
    [] v = "seo" -> IF format = Str("md") THEN "artigo.md" ELSE "arquivo.txt"
    [] v \in {"minimal", "basic", "basicAI"} ->
         IF format = Str("pdf") THEN "arquivo.pdf" ELSE "arquivo.txt"

safeName(v, b) ==
  sanitize(ToStr(Or(Field(b, "filename", Undefined), Str(defaultName(v, formatOf(v, b))))))

\* `${safeName || fallback}` of the Content-Disposition header; the minimal
\* server names the file itself.
headerName(v, b, ext) ==
  IF v = "minimal" THEN defaultName(v, formatOf(v, b))
  ELSE IF safeName(v, b) # "" THEN safeName(v, b)
  ELSE (IF v = "seo" THEN (IF ext = "csv" THEN "planilha." ELSE "artigo.") ELSE "arquivo.") \o ext

\* Title line of the PDF.
pdfTitle(v) ==
  CASE v = "seo" -> "Artigo (Blog Post)"
    [] v = "seo2" -> "Arquivo Gerado (SEO)"
    [] OTHER -> "Arquivo Gerado"

\* Buffer.concat(chunks): the bytes PDFKit emits for the title and the text.
\* They open with the file header and carry both strings.
pdfBuffer(title, text) == "%PDF-1.3\n" \o title \o "\n\n" \o text \o "\n%%EOF"

\* TRUE when the server has post-processing, Markdown and CSV branches.
FullVariants == {"words", "chars", "seo", "seo2"}

\* The branch of the handler that answers format f.
branch(v, b) ==
  LET f == formatOf(v, b)
  IN  IF f = Str("pdf") THEN "pdf"
      ELSE IF v \notin FullVariants THEN "txt"
      ELSE IF f = Str("md") THEN "md"
      ELSE IF f = Str("csv") \/ (v \in SeoVariants /\ contentTypeOf(v, b) = Str("planilha")) THEN "csv"
      ELSE "txt"

\* content = postProcess(content, format), where the server has it
processed(v, b, c) ==
  IF v \in FullVariants THEN postProcess(c, formatOf(v, b)) ELSE c

\* The response for the processed content c.
response(v, b, c) ==
  LET br == branch(v, b)
  IN  [status |-> 200,
       contentType |-> CASE br = "pdf" -> "application/pdf"
                         [] br = "md" -> "text/markdown; charset=utf-8"
                         [] br = "csv" -> "text/csv; charset=utf-8"
                         [] br = "txt" -> "text/plain; charset=utf-8",
       disposition |-> IF br = "pdf" /\ v \in FullVariants THEN "inline" ELSE "attachment",
       filename |-> headerName(v, b, br),
       body |-> CASE br = "pdf" -> pdfBuffer(pdfTitle(v), c)
                  [] br = "md" -> mdClean(c)
                  [] br = "csv" -> toCsvUtf8Bom(extractCsvFromMarkdown(c))
                  [] br = "txt" -> c]

\* The first bytes PDFKit emits: the file header.
\* Where the local generation throws for the body b: in the SEO server of
\* the second version langName(language) opens gerarConteudoSEO; the first
\* one puts the language in the text unless it answers CSV rows; the other
\* servers look the language up when the local generator starts.
throwsAt(v, b) ==
  IF Field(b, "language", Str("pt")) # Unprintable THEN "none"
  ELSE IF v = "seo2" THEN "generate"
  ELSE IF v = "seo" /\ csvRequested(v, b) THEN "none"
  ELSE "local"

\* The message of the TypeError.
noPrimitive == "Cannot convert object to primitive value"

\* TRUE when the PDF branch pipes the document to the response instead of
\* collecting its chunks.
piped(v) == v = "minimal"

\* An 'end' listener that sends its answer whatever went out before.
endListenerResends(sent, r, v, b, c) == response(v, b, c)

\* doc.on('end', ...) of the servers that collect the chunks: the listener sets
\* the headers and sends the buffer with status 200.  res.setHeader throws
\* once the headers have been sent, and the response stays as it is.
endListener(sent, r, v, b, c) ==
  IF sent /\ ~piped(v) THEN r ELSE response(v, b, c)

\* Outcomes of a rendering failure: the message of the error emitted.
RenderErrors == {"", "stream error"}

\* The final error handler, for an error with message m: a 500 with the error
\* envelope unless the headers have been sent, in which case the response
\* stays as it is.  detail is String(err?.message || err).
errorHandler(sent, r, m) ==
  IF sent THEN r
  ELSE [status |-> 500,
        contentType |-> "application/json; charset=utf-8",
        error |-> "Erro interno",
        detail |-> IF m # "" THEN m ELSE "Error"]

\* The catch of the handler, for an error with message m: next(err), which
\* leads to the final error handler; the minimal server answers itself.
caught(v, sent, r, m) ==
  IF v = "minimal"
  THEN [status |-> 500, contentType |-> "application/json; charset=utf-8",
        error |-> "Falha ao gerar arquivo"]
  ELSE errorHandler(sent, r, m)

(***************************************************************************)
(* The middleware in front of the routes: CORS, the JSON body parser and   *)
(* the rate limiter.  A request is its method, path, Origin header ("" when*)
(* absent), the client it comes from and, for a POST, whether its payload  *)
(* parses.                                                                 *)
(***************************************************************************)

\* The servers of the repository.  Those past Variants are modelled up to
\* their CORS middleware:
\*   "seoReal"  SEO server with real content, origin suffixes accepted
\*   "seoCors"  SEO server that logs the origin, origin suffixes accepted
\*   "dev"      TXT/PDF server whose own middleware answers every origin
Servers == Variants \cup {"seoReal", "seoCors", "dev"}

\* How the server decides on the origin:
\*   "list"      the allowed list, in a middleware of its own and in cors()
\*   "suffix"    the allowed list or a hosting suffix, in both
\*   "callback"  cors() alone, its origin callback failing for other origins
\*   "open"      cors() without options
\*   "star"      a middleware of its own that names "*", then cors()
corsStack(v) ==
  CASE v \in {"words", "chars", "seo", "seo2", "basicAI"} -> "list"
    [] v \in {"seoReal", "seoCors"} -> "suffix"
    [] v = "minimal" -> "callback"
    [] v = "basic" -> "open"
    [] v = "dev" -> "star"

\* The stacks whose first middleware is the server's own, which also answers
\* every OPTIONS request.
OwnStacks == {"list", "suffix", "star"}

okSuffixes == <<".repl.co", ".replit.app", ".replit.dev", ".worf.replit.dev">>

\* allowed.includes(origin)
listed(list, origin) == \E i \in 1..Len(list) : list[i] = origin

\* s.endsWith(t)
endsWith(s, t) == Len(t) <= Len(s) /\ SubSeq(s, Len(s) - Len(t) + 1, Len(s)) = t

\* The part of s before the first character of stops.
before(s, stops) ==
  LET at == {i \in 1..Len(s) : Ch(s, i) \in stops}
  IN  IF at = {} THEN s ELSE SubSeq(s, 1, Min(at) - 1)

\* The host in what follows the // of a URL: the authority ends at the
\* path, query or fragment; the host follows the user information, precedes
\* the port and is in lower case.
hostOf(rest) ==
  LET authority == before(rest, {"/", "?", "#"})
      at == {i \in 1..Len(authority) : Ch(authority, i) = "@"}
      last == CHOOSE i \in at : \A j \in at : j <= i
  IN  toLowerCase(before(IF at = {} THEN authority ELSE From(authority, last + 1), {":"}))

\* TRUE when o reads scheme://..., the scheme being letters.
absoluteUrl(o) ==
  LET k == IndexOfFrom(o, "://", 1)
  IN  k > 1 /\ \A i \in 1..(k - 1) : Ch(o, i) \in Chars(LowerAscii \o UpperAscii)

\* new URL(o).hostname for an absolute o
hostname(o) == hostOf(From(o, IndexOfFrom(o, "://", 1) + 3))

\* new URL(origin || '', 'http://x').hostname: a string that is no absolute
\* URL resolves against the base, whose host is x, unless it opens with //.
hostnameOnBase(o) ==
  IF absoluteUrl(o) THEN hostname(o)
  ELSE IF StartsWithAt(o, 1, "//") THEN hostOf(From(o, 3))
  ELSE "x"

\* okSuffixes.some(s => host.endsWith(s))
okSuf(host) == \E i \in 1..Len(okSuffixes) : endsWith(host, okSuffixes[i])

\* A middleware that names "*" whatever the list and the origin.
ownAllowOriginAny(stack, list, origin) == "*"

\* Access-Control-Allow-Origin as the server's own middleware sets it, ""
\* when it sets none.
ownAllowOrigin(stack, list, origin) ==
  CASE stack = "list" ->
         IF list = <<>> THEN "*"
         ELSE IF origin # "" /\ listed(list, origin) THEN origin ELSE ""
    [] stack = "suffix" ->
         IF list = <<>> THEN (IF origin # "" THEN origin ELSE "*")
         ELSE IF (origin # "" /\ listed(list, origin)) \/ okSuf(hostnameOnBase(origin))
         THEN origin ELSE ""
    [] stack = "star" -> "*"
    [] stack \in {"callback", "open"} -> ""

\* What the origin callback handed to cors() answers: "allow", "deny", or
\* "error" when it calls back with an Error.
originCallback(stack, list, origin) ==
  IF origin = "" \/ list = <<>> THEN "allow"
  ELSE CASE stack = "list" -> IF listed(list, origin) THEN "allow" ELSE "deny"
         [] stack = "suffix" ->
              IF absoluteUrl(origin) /\ (listed(list, origin) \/ okSuf(hostname(origin)))
              THEN "allow" ELSE "deny"
         [] stack = "callback" -> IF listed(list, origin) THEN "allow" ELSE "error"

\* Access-Control-Allow-Origin of the response.  The server's own
\* middleware ends an OPTIONS request, so cors() is not reached; otherwise
\* cors() without options answers "*", and with an origin callback it gives
\* an allowed request its own Origin back, when it has one.
allowOrigin(stack, list, origin, method) ==
  IF stack \in OwnStacks /\ method = "OPTIONS" THEN ownAllowOrigin(stack, list, origin)
  ELSE IF stack \in {"open", "star"} THEN "*"
  ELSE IF originCallback(stack, list, origin) = "allow" /\ origin # "" THEN origin
  ELSE ownAllowOrigin(stack, list, origin)

\* Access-Control-Allow-Methods of the answer to an OPTIONS request: the
\* server's own middleware names three methods; cors() answers a preflight
\* with its default list when it is given none.
preflightMethods(stack) ==
  IF stack \in OwnStacks THEN "GET,POST,OPTIONS"
  ELSE "GET,HEAD,PUT,PATCH,POST,DELETE"

\* rateLimit({ windowMs: 60_000, max: 60 })
max == 60

\* TRUE when the server has the rate limiter.
rateLimited(v) == v # "basic"

\* TRUE when the server has a final error handler; Express answers an error
\* itself where there is none.
hasErrorHandler(v) == v # "minimal"

\* The answer to an error e passed to next(): the final error handler's, or
\* Express's own, which takes the status of the error or 500.
errorAnswer(v, e) ==
  IF hasErrorHandler(v) THEN errorHandler(FALSE, NoResponse, e.message)
  ELSE [status |-> e.status]

\* Where the router sends a request that passed the middleware.  GET /health
\* is answered res.json({ ok: true, uptime: process.uptime(), ... }).
route(v, r) ==
  IF r.method = "GET" /\ r.path = "/health"
  THEN [kind |-> "answer",
        res |-> [status |-> 200, contentType |-> "application/json; charset=utf-8",
                 ok |-> TRUE]]
  ELSE IF r.method = "POST" /\ r.path = "/api/generate" THEN [kind |-> "handler"]
  ELSE [kind |-> "answer", res |-> [status |-> 404]]

\* The rate limiter, then the router.  n is the number of requests of the
\* client counted in the window so far; a request past max is counted and
\* answered 429.
limited(v, r, n) ==
  IF rateLimited(v) /\ n + 1 > max
  THEN [kind |-> "answer", counted |-> TRUE,
        res |-> [status |-> 429, body |-> "Too many requests, please try again later."]]
  ELSE [counted |-> rateLimited(v)] @@ route(v, r)

\* express.json(), for a request that carries a payload: one that does not
\* parse raises an error of status 400, one past the limit of 1mb an error
\* of status 413.
parsed(v, r, rest) ==
  IF r.payload = "malformed"
  THEN [kind |-> "answer", counted |-> FALSE,
        res |-> errorAnswer(v, [status |-> 400, message |-> "Unexpected end of JSON input"])]
  ELSE IF r.payload = "oversized"
  THEN [kind |-> "answer", counted |-> FALSE,
        res |-> errorAnswer(v, [status |-> 413, message |-> "request entity too large"])]
  ELSE rest

\* The CORS step: an OPTIONS request ends here with 204, a request the
\* origin callback fails ends with the error's answer.
corsStep(v, list, r, rest) ==
  IF corsStack(v) = "callback" /\ originCallback("callback", list, r.origin) = "error"
  THEN [kind |-> "answer", counted |-> FALSE,
        res |-> errorAnswer(v, [status |-> 500, message |-> "CORS: origem não permitida"])]
  ELSE IF r.method = "OPTIONS"
  THEN [kind |-> "answer", res |-> [status |-> 204], counted |-> FALSE]
  ELSE rest

\* The middleware in the order the server installs it.  The minimal server
\* parses the body before CORS; the others after.
front(v, list, r, n) ==
  IF v = "minimal"
  THEN parsed(v, r, corsStep(v, list, r, limited(v, r, n)))
  ELSE corsStep(v, list, r, parsed(v, r, limited(v, r, n)))

\* The CORS headers of the response; none when the origin callback failed.
corsHeaders(v, list, r) ==
  LET stack == corsStack(v)
      failed == stack = "callback" /\ originCallback(stack, list, r.origin) = "error"
  IN  [allowOrigin |-> IF failed THEN "" ELSE allowOrigin(stack, list, r.origin, r.method),
       allowMethods |-> IF failed THEN ""
                        ELSE IF stack \in OwnStacks \/ r.method = "OPTIONS"
                        THEN preflightMethods(stack) ELSE ""]

\* A body without fields.
EmptyBody == [f \in {} |-> Undefined]

NoRequest == [method |-> "none"]
NoCors == [allowOrigin |-> "", allowMethods |-> ""]

(***************************************************************************)
(* The handler of POST /api/generate, step by step.                        *)
(***************************************************************************)

\* The last provider call gets its reply.
answered(r) == [calls EXCEPT ![Len(calls)].reply = r]

\* The content phase once the secondary keywords fs are known (fs is unused
\* outside the SEO servers): either the provider is asked, or the local
\* generator is called.
ContentPhase(fs, cs) ==
  /\ finalSec' = fs
  /\ calls' = IF asksProvider(variant, body)
              THEN Append(cs, create(variant, body, "content"))
              ELSE cs
  /\ pc' = IF asksProvider(variant, body) THEN "content" ELSE "local"
  /\ UNCHANGED <<content, source>>

\* The handler is entered with the parsed body b.
Start(b) ==
  /\ pc' = "generate"
  /\ body' = b
  /\ finalSec' = <<>>
  /\ content' = ""
  /\ source' = "none"
  /\ calls' = <<>>
  /\ res' = NoResponse
  /\ headersSent' = FALSE
  /\ doc' = "none"

\* express.json() hands the parsed body b to the handler.
Receive(b) ==
  /\ pc \in {"idle", "done"}
  /\ Start(b)
  /\ UNCHANGED <<variant, useAI, openaiClient, envModel, txt, stage, out, httpVars>>

\* A request r goes through the middleware.  It is answered there, or by
\* the route of GET /health, or it enters the handler with the parsed body b.
Request(r, b) ==
  /\ pc \in {"idle", "done"}
  /\ LET f == front(variant, allowed, r, hits[r.client])
     IN  /\ hits' = IF f.counted
                    THEN [hits EXCEPT ![r.client] = IF @ > max THEN @ ELSE @ + 1]
                    ELSE hits
         /\ IF f.kind = "handler"
            THEN Start(b)
            ELSE /\ pc' = "done"
                 /\ body' = EmptyBody
                 /\ finalSec' = <<>>
                 /\ content' = ""
                 /\ source' = "none"
                 /\ calls' = <<>>
                 /\ res' = f.res
                 /\ headersSent' = TRUE
                 /\ doc' = "none"
  /\ req' = r
  /\ resCors' = corsHeaders(variant, allowed, r)
  /\ UNCHANGED <<variant, useAI, openaiClient, envModel, allowed, txt, stage, out>>

\* The window of the rate limiter ends: every count starts again.
WindowReset ==
  /\ \E c \in DOMAIN hits : hits[c] > 0
  /\ hits' = [c \in DOMAIN hits |-> 0]
  /\ UNCHANGED <<variant, useAI, openaiClient, envModel, doc, pc, body, finalSec, content, source, calls,
                 res, headersSent, allowed, req, resCors, txt, stage, out>>

\* The handler starts generating.  An SEO server first settles the secondary
\* keywords: the caller's when there are minSec of them, else the provider's
\* when there is a client, else the local ones.
Generate ==
  /\ pc = "generate"
  /\ IF throwsAt(variant, body) = "generate"
     THEN /\ pc' = "done"
          /\ res' = caught(variant, headersSent, res, noPrimitive)
          /\ headersSent' = TRUE
          /\ UNCHANGED <<finalSec, content, source, calls>>
     ELSE IF variant \in SeoVariants
     THEN /\ UNCHANGED <<res, headersSent>>
          /\ LET given == secListIn(Field(body, "secondaryKeywords", Str("")))
             IN  IF Len(given) >= minSec THEN ContentPhase(given, calls)
                 ELSE IF openaiClient
                 THEN /\ pc' = "keywords"
                      /\ calls' = Append(calls, create(variant, body, "keywords"))
                      /\ UNCHANGED <<finalSec, content, source>>
                 ELSE ContentPhase(localSecondaryKeywords(
                                     IF variant = "seo" THEN genericTerms ELSE genericTerms2,
                                     Field(body, "primaryKeyword", Str("")),
                                     Field(body, "topic", Str("")), minSec), calls)
     ELSE /\ UNCHANGED <<res, headersSent>>
          /\ ContentPhase(<<>>, calls)
  /\ UNCHANGED <<variant, useAI, openaiClient, envModel, doc, body, txt, stage, out, httpVars>>

\* generateSecondaryKeywords gets the provider's outcome r: a list of at
\* least minSec keywords is taken, anything else falls back to the local ones.
KeywordsReply(r) ==
  /\ pc = "keywords"
  /\ LET got == keywordsFromReply(rawText(r), minSec)
         fs == IF Len(got) >= minSec THEN got
               ELSE localSecondaryKeywords(
                      IF variant = "seo" THEN genericTerms ELSE genericTerms2,
                      Field(body, "primaryKeyword", Str("")),
                      Field(body, "topic", Str("")), minSec)
     IN  ContentPhase(fs, answered(r))
  /\ UNCHANGED <<variant, useAI, openaiClient, envModel, doc, body, res, headersSent, txt, stage, out, httpVars>>

\* The content call gets the provider's outcome r: its text is taken, or the
\* failure is caught and the local generator is called.
ContentReply(r) ==
  /\ pc = "content"
  /\ calls' = answered(r)
  /\ IF fallsBack(variant, body, r)
     THEN /\ pc' = "local"
          /\ UNCHANGED <<content, source>>
     ELSE /\ pc' = "ready"
          /\ content' = remoteContent(variant, body, r)
          /\ source' = "remote"
  /\ UNCHANGED <<variant, useAI, openaiClient, envModel, doc, body, finalSec, res, headersSent, txt, stage, out, httpVars>>

\* The local generator writes the content, unless it throws, which the
\* handler catches, or enters a loop that has no end: the handler then
\* stays in it.
LocalGenerate ==
  /\ pc = "local"
  /\ IF throwsAt(variant, body) = "local"
     THEN /\ pc' = "done"
          /\ res' = caught(variant, headersSent, res, noPrimitive)
          /\ headersSent' = TRUE
          /\ UNCHANGED <<content, source>>
     ELSE IF localDiverges(variant, body)
     THEN /\ pc' = "looping"
          /\ UNCHANGED <<content, source, res, headersSent>>
     ELSE /\ pc' = "ready"
          /\ content' = localContent(variant, body, finalSec)
          /\ source' = "local"
          /\ UNCHANGED <<res, headersSent>>
  /\ UNCHANGED <<variant, useAI, openaiClient, envModel, doc, body, finalSec, calls, txt, stage, out, httpVars>>

\* The content is post-processed; a PDF is then rendered, any other format
\* is sent at once.
Respond ==
  /\ pc = "ready"
  /\ content' = processed(variant, body, content)
  /\ IF branch(variant, body) = "pdf"
     THEN /\ pc' = "rendering"
          /\ doc' = "open"
          /\ UNCHANGED <<res, headersSent>>
     ELSE /\ pc' = "done"
          /\ res' = response(variant, body, content')
          /\ headersSent' = TRUE
          /\ UNCHANGED doc
  /\ UNCHANGED <<variant, useAI, openaiClient, envModel, body, finalSec, source, calls, txt, stage, out, httpVars>>

\* doc.pipe(res): the first chunk of the document goes out, and the headers
\* set for it go out before it.
PdfData ==
  /\ pc = "rendering"
  /\ piped(variant)
  /\ ~headersSent
  /\ headersSent' = TRUE
  /\ res' = [response(variant, body, content) EXCEPT !.body = "%PDF-1.3\n"]
  /\ UNCHANGED <<variant, useAI, openaiClient, envModel, doc, pc, body, finalSec, content, source, calls,
                 txt, stage, out, httpVars>>

\* The document ends.  doc.on('end'): the buffered PDF is sent, unless the
\* 'error' callback came first and was answered; a piped document has sent
\* its last chunk.
PdfEnd ==
  /\ doc \in {"open", "errored"}
  /\ piped(variant) => headersSent
  /\ pc' = "done"
  /\ doc' = IF doc = "open" THEN "ended" ELSE "closed"
  /\ res' = endListener(headersSent, res, variant, body, content)
  /\ headersSent' = TRUE
  /\ UNCHANGED <<variant, useAI, openaiClient, envModel, body, finalSec, content, source, calls, txt, stage, out, httpVars>>

\* doc.on('error', err => next(err)): a rendering failure with message m
\* reaches the final error handler, before the document ends or after it.
PdfError(m) ==
  /\ doc \in {"open", "ended"}
  /\ ~piped(variant)
  /\ pc' = "done"
  /\ doc' = IF doc = "open" THEN "errored" ELSE "closed"
  /\ res' = errorHandler(headersSent, res, m)
  /\ headersSent' = TRUE
  /\ UNCHANGED <<variant, useAI, openaiClient, envModel, body, finalSec, content, source, calls, txt, stage, out, httpVars>>

(***************************************************************************)
(* Requests and provider outcomes the model draws from.                    *)
(***************************************************************************)

\* A size a request asks for that its template can fill without repeating.
SmallSize == 3

\* A size past the 38 characters the shortest character template holds.
MidSize == 40

\* A size past the 146 words the longest word template holds.
LargeSize == 150

\* The body b with field name set to value v.
With(b, name, v) ==
  [f \in DOMAIN b \cup {name} |-> IF f = name THEN v ELSE b[f]]

\* The requested size goes by 'words' or by 'length', depending on the server.
Sized(b, v) == With(With(b, "words", v), "length", v)

FormatChoices == {Str("txt"), Str("md"), Str("csv"), Str("pdf")}

WithFormats(B) == B \cup {With(b, "format", f) : b \in B, f \in FormatChoices}

FilenameChoices ==
  {Str("report name!@#.pdf"), Str(""), Str("ação.txt"), Str("../etc/passwd"),
   Num(5), Null, Bool(TRUE), Arr(<<>>), Arr(<<"a b", "c">>), Obj}

TickTopic == Str("´´ ´´´´")

Bodies ==
  \* no field at all: every default applies
  {EmptyBody}
  \* sizes against formats
  \cup WithFormats({Sized(EmptyBody, Num(0)), Sized(EmptyBody, Num(SmallSize))})
  \* further sizes
  \cup {Sized(EmptyBody, v) : v \in {Num(MidSize), Num(LargeSize), Num(-1), Str("abc"), Str("12"), Null}}
  \* a word count past the double range
  \cup {With(b, "words", Infinity) : b \in {EmptyBody, [contentType |-> Str("planilha")]}}
  \* content types
  \cup {With(b, "contentType", Str(c)) :
          b \in {Sized(EmptyBody, Num(MidSize)), Sized([format |-> Str("pdf")], Num(MidSize))},
          c \in {"planilha", "blog", "email"}}
  \* language and tone
  \cup {Sized([language |-> Str("en")], Num(30)),
        Sized([language |-> Str("es"), tone |-> Str("professional")], Num(MidSize)),
        Sized([language |-> Num(1), tone |-> Null], Num(MidSize))}
  \* topic and keywords, with quotes, repeated words and backticks
  \cup {Sized([topic |-> Str("Casa casa"), keywords |-> Str("jardim, \"flor\"")], Num(MidSize)),
        [topic |-> TickTopic, format |-> Str("md"), length |-> Num(35), words |-> Num(19)],
        Sized([topic |-> Num(7), primaryKeyword |-> Str("casa, jardim")], Num(MidSize))}
  \* secondary keywords of the SEO servers
  \cup {Sized([secondaryKeywords |-> Arr(<<"k1", "k2", "k3", "k4", "k5", "k6", "k7", "k8">>)], Num(SmallSize)),
        Sized([secondaryKeywords |-> Str("k1, k2")], Num(SmallSize))}
  \* file names
  \cup {With(b, "filename", n) :
          b \in {Sized(EmptyBody, Num(SmallSize)),
                 Sized([format |-> Str("pdf")], Num(SmallSize)),
                 Sized([format |-> Str("csv")], Num(SmallSize))},
          n \in FilenameChoices}

\* The callers the rate limiter tells apart.
Clients == {"a"}

\* ALLOWED_ORIGINS unset, or naming one origin.
AllowedLists == {<<>>, <<"https://app.example">>}

\* Origin headers: none, the listed one, another.
Origins == {"", "https://app.example", "https://evil.example"}

\* Origin headers against the hosting suffixes.
SuffixOrigins ==
  {"https://user.replit.dev", "https://a.replit.dev.evil.example",
   "https://evil.example/x.replit.dev", "https://a.repl.co@evil.example",
   "HTTPS://USER.REPLIT.APP", "https://app.example:8080", "//user.repl.co", "null"}

\* A POST carries a payload that parses, one that does not, or one past 1mb.
Requests ==
  {[method |-> m, path |-> p, origin |-> o, client |-> c, payload |-> "none"] :
     m \in {"GET", "OPTIONS"}, p \in {"/health", "/api/generate"}, o \in Origins, c \in Clients}
  \cup {[method |-> "POST", path |-> "/api/generate", origin |-> o, client |-> c, payload |-> y] :
          o \in Origins, c \in Clients, y \in {"json", "malformed", "oversized"}}

\* The parsed bodies of the requests above.
HttpBodies ==
  {Sized(EmptyBody, Num(SmallSize)), Sized([format |-> Str("pdf")], Num(SmallSize)),
   Sized([language |-> Unprintable], Num(SmallSize))}

ContentReplies ==
  {Throws, NoContent, Text(" \n"),
   Text("Um texto. Um texto.\n´´´csv\nA,B\r\n1,2\n3,4\n´´´"),
   Text("´´ ´´´´")}

KeywordReplies ==
  {Throws, Text("k1, k2"), Text("s1,s2,s3,s4,s5,s6,s7,s8,s9")}

(***************************************************************************)
(* The text pipeline on its own: every text over a small alphabet.         *)
(***************************************************************************)

\* Longest text drawn from the alphabet.
MaxLen == 4

TextAlphabet == {"a", "A", "ã", " ", "."}

RECURSIVE TextsOfLen(_)
TextsOfLen(n) ==
  IF n = 0 THEN {""}
  ELSE {s \o c : s \in TextsOfLen(n - 1), c \in TextAlphabet}

SampleTexts ==
  {"Hello world. Hello world. Goodbye.",
   "muito muito muito bom",
   "Olá!  olá! Tudo bem?\nTUDO   BEM? sim¤ fim",
   "não não. são o"}

Texts == UNION {TextsOfLen(n) : n \in 0..MaxLen} \cup SampleTexts

\* content = postProcess(content, format) for a format other than csv
PostProcessStep ==
  /\ stage = "input"
  /\ stage' = "postProcess"
  /\ out' = <<postProcess(txt, Str("txt"))>>
  /\ UNCHANGED <<handlerVars, txt>>

\* The same again on the result.
PostProcessAgain ==
  /\ stage = "postProcess"
  /\ stage' = "postProcessTwice"
  /\ out' = Append(out, postProcess(out[1], Str("txt")))
  /\ UNCHANGED <<handlerVars, txt>>

\* The for loop of dedupeSentences: out holds the sentences pushed.
DedupeStep ==
  /\ stage = "input"
  /\ stage' = "dedupe"
  /\ out' = keptSentences(txt)
  /\ UNCHANGED <<handlerVars, txt>>

\* The repeated-word replace of postProcess alone.
CollapseStep ==
  /\ stage = "input"
  /\ stage' = "collapse"
  /\ out' = <<collapseWords(txt)>>
  /\ UNCHANGED <<handlerVars, txt>>

(***************************************************************************)
(* Specifications.                                                         *)
(***************************************************************************)

Init ==
  /\ variant \in Variants
  /\ useAI \in BOOLEAN
  /\ openaiClient \in BOOLEAN
  /\ openaiClient => useAI
  /\ variant \in {"minimal", "basic"} => ~useAI
  /\ envModel = ""
  /\ doc = "none"
  /\ pc = "idle"
  /\ body = EmptyBody
  /\ finalSec = <<>>
  /\ content = ""
  /\ source = "none"
  /\ calls = <<>>
  /\ res = NoResponse
  /\ headersSent = FALSE
  /\ allowed = <<>>
  /\ hits = [c \in Clients |-> 0]
  /\ req = NoRequest
  /\ resCors = NoCors
  /\ txt = ""
  /\ stage = "off"
  /\ out = <<>>

Next ==
  \/ \E b \in Bodies : Receive(b)
  \/ Generate
  \/ \E r \in KeywordReplies : KeywordsReply(r)
  \/ \E r \in ContentReplies : ContentReply(r)
  \/ LocalGenerate
  \/ Respond
  \/ PdfData
  \/ PdfEnd
  \/ \E m \in RenderErrors : PdfError(m)

Spec == Init /\ [][Next]_vars

InitText ==
  /\ variant = "words"
  /\ useAI = FALSE
  /\ openaiClient = FALSE
  /\ envModel = ""
  /\ doc = "none"
  /\ pc = "idle"
  /\ body = EmptyBody
  /\ finalSec = <<>>
  /\ content = ""
  /\ source = "none"
  /\ calls = <<>>
  /\ res = NoResponse
  /\ headersSent = FALSE
  /\ allowed = <<>>
  /\ hits = [c \in Clients |-> 0]
  /\ req = NoRequest
  /\ resCors = NoCors
  /\ txt \in Texts
  /\ stage = "input"
  /\ out = <<>>

NextText ==
  \/ PostProcessStep
  \/ PostProcessAgain
  \/ DedupeStep
  \/ CollapseStep

SpecText == InitText /\ [][NextText]_vars

\* Requests through the middleware, the provider switched off.
InitHttp ==
  /\ variant \in Variants
  /\ useAI = FALSE
  /\ openaiClient = FALSE
  /\ envModel = ""
  /\ doc = "none"
  /\ pc = "idle"
  /\ body = EmptyBody
  /\ finalSec = <<>>
  /\ content = ""
  /\ source = "none"
  /\ calls = <<>>
  /\ res = NoResponse
  /\ headersSent = FALSE
  /\ allowed \in AllowedLists
  /\ hits = [c \in Clients |-> 0]
  /\ req = NoRequest
  /\ resCors = NoCors
  /\ txt = ""
  /\ stage = "off"
  /\ out = <<>>

NextHttp ==
  \/ \E r \in Requests :
       \E b \in (IF r.payload = "json" THEN HttpBodies ELSE {EmptyBody}) : Request(r, b)
  \/ WindowReset
  \/ Generate
  \/ LocalGenerate
  \/ Respond
  \/ PdfData
  \/ PdfEnd
  \/ \E m \in RenderErrors : PdfError(m)

SpecHttp == InitHttp /\ [][NextHttp]_vars

\* The CORS decision on its own, for every server and origin.
InitCors ==
  /\ variant \in Servers
  /\ useAI = FALSE
  /\ openaiClient = FALSE
  /\ envModel = ""
  /\ doc = "none"
  /\ pc = "idle"
  /\ body = EmptyBody
  /\ finalSec = <<>>
  /\ content = ""
  /\ source = "none"
  /\ calls = <<>>
  /\ res = NoResponse
  /\ headersSent = FALSE
  /\ allowed \in AllowedLists
  /\ hits = [c \in Clients |-> 0]
  /\ req \in {[method |-> m, path |-> "/api/generate", origin |-> o, client |-> "a",
               payload |-> IF m = "POST" THEN "json" ELSE "none"] :
                m \in {"GET", "POST", "OPTIONS"}, o \in Origins \cup SuffixOrigins}
  /\ resCors = NoCors
  /\ txt = ""
  /\ stage = "input"
  /\ out = <<>>

\* The CORS middleware sets the headers of the response to req.
CorsStep ==
  /\ stage = "input"
  /\ stage' = "cors"
  /\ resCors' = corsHeaders(variant, allowed, req)
  /\ UNCHANGED <<variant, useAI, openaiClient, envModel, doc, pc, body, finalSec, content, source, calls,
                 res, headersSent, allowed, hits, req, txt, out>>

SpecCors == InitCors /\ [][CorsStep]_vars

(***************************************************************************)
(* The same request twice: the text the local generator returned for one   *)
(* request is kept, to be compared with what it returns later.             *)
(***************************************************************************)

RepeatBodies ==
  {Sized(EmptyBody, Num(SmallSize)),
   Sized([topic |-> Str("Casa casa"), keywords |-> Str("jardim")], Num(MidSize)),
   Sized([contentType |-> Str("planilha")], Num(SmallSize))}

\* An observer keeps the request, the keyword list, the provider calls and the
\* text of one local generation.
NoteLocalText ==
  /\ pc = "ready"
  /\ source = "local"
  /\ stage = "off"
  /\ stage' = "noted"
  /\ out' = <<[body |-> body, finalSec |-> finalSec, calls |-> calls, content |-> content]>>
  /\ UNCHANGED <<handlerVars, txt>>

NextRepeat ==
  \/ \E b \in RepeatBodies : Receive(b)
  \/ Generate
  \/ \E r \in KeywordReplies : KeywordsReply(r)
  \/ \E r \in ContentReplies : ContentReply(r)
  \/ LocalGenerate
  \/ Respond
  \/ NoteLocalText

SpecRepeat == Init /\ [][NextRepeat]_vars

(***************************************************************************)
(* The servers with a provider client, and what they send to it.           *)
(***************************************************************************)

\* Requests that name a model or a temperature, and one that names neither.
CallBodies ==
  {Sized(EmptyBody, Num(SmallSize))}
  \cup {With(b, "aiModel", Str("gpt-4-turbo")) :
          b \in {Sized(EmptyBody, Num(SmallSize)), Sized([format |-> Str("csv")], Num(SmallSize))}}
  \cup {With(b, "temperature", t) :
          b \in {Sized(EmptyBody, Num(SmallSize)), Sized([format |-> Str("csv")], Num(SmallSize))},
          t \in {Num(0), Num(1), Num(-1), Num(5), Str("abc"), Null}}

InitCalls ==
  /\ variant \in ProviderVariants
  /\ useAI = TRUE
  /\ openaiClient = TRUE
  /\ envModel \in {"", "gpt-4o"}
  /\ doc = "none"
  /\ pc = "idle"
  /\ body = EmptyBody
  /\ finalSec = <<>>
  /\ content = ""
  /\ source = "none"
  /\ calls = <<>>
  /\ res = NoResponse
  /\ headersSent = FALSE
  /\ allowed = <<>>
  /\ hits = [c \in Clients |-> 0]
  /\ req = NoRequest
  /\ resCors = NoCors
  /\ txt = ""
  /\ stage = "off"
  /\ out = <<>>

NextCalls ==
  \/ \E b \in CallBodies : Receive(b)
  \/ Generate
  \/ \E r \in KeywordReplies : KeywordsReply(r)
  \/ \E r \in ContentReplies : ContentReply(r)
  \/ LocalGenerate
  \/ Respond

SpecCalls == InitCalls /\ [][NextCalls]_vars

(***************************************************************************)
(* The SEO servers and the secondary keywords of a request.                *)
(***************************************************************************)

\* secondaryKeywords as a caller may send them: absent, a comma-separated
\* text or a JSON array, with fewer than minSec entries or with enough.
SecondaryChoices ==
  {Str(""), Str("k1, k2"), Str("k1,k2,k3,k4,k5,k6,k7,k8,k9"),
   Arr(<<"k1", "k2">>),
   Arr(<<"k1", "k2", "k3", "k4", "k5", "k6", "k7", "k8">>),
   Arr(<<"k1", "", "k3", "k4", "k5", "k6", "k7", "k8">>)}

KeywordBodies ==
  {With(b, "secondaryKeywords", s) :
     b \in {Sized(EmptyBody, Num(SmallSize)),
            Sized([contentType |-> Str("planilha"), primaryKeyword |-> Str("casa")], Num(SmallSize))},
     s \in SecondaryChoices}

InitKeywords ==
  /\ variant \in SeoVariants
  /\ useAI \in BOOLEAN
  /\ openaiClient \in BOOLEAN
  /\ openaiClient => useAI
  /\ envModel = ""
  /\ doc = "none"
  /\ pc = "idle"
  /\ body = EmptyBody
  /\ finalSec = <<>>
  /\ content = ""
  /\ source = "none"
  /\ calls = <<>>
  /\ res = NoResponse
  /\ headersSent = FALSE
  /\ allowed = <<>>
  /\ hits = [c \in Clients |-> 0]
  /\ req = NoRequest
  /\ resCors = NoCors
  /\ txt = ""
  /\ stage = "off"
  /\ out = <<>>

NextKeywords ==
  \/ \E b \in KeywordBodies : Receive(b)
  \/ Generate
  \/ \E r \in KeywordReplies : KeywordsReply(r)
  \/ \E r \in ContentReplies : ContentReply(r)
  \/ LocalGenerate
  \/ Respond

SpecKeywords == InitKeywords /\ [][NextKeywords]_vars

(***************************************************************************)
(* Properties.                                                             *)
(***************************************************************************)

\* C1: with no provider configured, every request is answered with status
\* 200 and a non-empty body, and no provider call is issued for it.
C1_LocalOnlyAnswers ==
  (pc = "done" /\ ~useAI) =>
    (res.status = 200 /\ res.body # "" /\ calls = <<>>)

\* The content call of the request failed: it was rejected, or its reply
\* holds no text or white space only.
ContentCallFailed ==
  /\ calls # <<>>
  /\ calls[Len(calls)].to = "content"
  /\ LET r == calls[Len(calls)].reply
     IN  \/ r.kind \in {"throw", "missing"}
         \/ (r.kind = "text" /\ trim(r.text) = "")

\* C2: when the provider is configured and its content call fails, on any
\* generation path, the request is answered with status 200 and what it
\* sends was written by the local generator.
C2_FailureFallsBack ==
  (pc = "done" /\ openaiClient /\ ContentCallFailed) =>
    (res.status = 200 /\ source = "local")

\* Every line feed of s has a carriage return just before it.
CrBeforeEveryLf(s) ==
  \A i \in 1..Len(s) : Ch(s, i) = "\n" => (i > 1 /\ Ch(s, i - 1) = "\r")

CsvBytes(s) == StartsWithAt(s, 1, BOM) /\ CrBeforeEveryLf(s)

C4_NoFenceAtEnds ==
  (pc = "done" /\ branch(variant, body) = "md") =>
    /\ ~StartsWithAt(res.body, 1, Fence)
    /\ ~StartsWithAt(res.body, Len(res.body) - 2, Fence)

clamp(n, lo, hi) == IF n < lo THEN lo ELSE IF n > hi THEN hi ELSE n

CharVariants == {"chars", "basic", "basicAI"}

\* C5: in the servers that count characters, the text the local generator
\* returns for a numeric length has exactly clamp(length, 30, 5000)
\* characters.
C5_LocalLengthExact ==
  (/\ pc = "ready"
   /\ source = "local"
   /\ variant \in CharVariants
   /\ "length" \in DOMAIN body
   /\ body.length.type = "number"
   /\ body.length # Infinity) =>
    Len(content) = clamp(body.length.num, 30, 5000)

\* Number of white-space separated words of s.
wordCount(s) ==
  Cardinality({i \in 1..Len(s) :
                 ~IsSpace(Ch(s, i)) /\ (i = 1 \/ IsSpace(Ch(s, i - 1)))})

WordVariants == {"words", "seo", "seo2"}

\* C6: in the servers that count words, the text the local generator returns
\* for a requested word count holds exactly that many words.
C6_LocalWordCountExact ==
  (/\ pc = "ready"
   /\ source = "local"
   /\ variant \in WordVariants
   /\ ~csvRequested(variant, body)
   /\ "words" \in DOMAIN body
   /\ body.words.type = "number"
   /\ body.words # Infinity
   /\ body.words.num >= 0) =>
    wordCount(content) = body.words.num

\* C7: post-processing a post-processed text, for a format other than csv,
\* changes nothing.
C7_Idempotent ==
  stage = "postProcessTwice" => out[2] = out[1]

\* The normalised form of a sentence: white space collapsed, lower-cased,
\* trimmed.
NormalForm(seg) == trim(toLowerCase(collapseSpace(seg)))

\* What follows the last terminator of s.
TrailingFragment(s) ==
  LET terms == {j \in 1..Len(s) : Ch(s, j) \in Terminators}
  IN  IF terms = {} THEN s ELSE From(s, (CHOOSE j \in terms : \A k \in terms : k <= j) + 1)

\* C8: the de-duplication keeps exactly the first occurrence of each
\* normalised sentence form, in the original order and casing, so that no
\* two kept sentences share a form; a trailing fragment without terminator
\* counts as a sentence.
C8_KeepsFirstOccurrences ==
  stage = "dedupe" =>
    LET parts == sentenceParts(txt)
        n == Len(parts)
        form == [i \in 1..n |-> NormalForm(parts[i])]
        first == Where([i \in 1..n |->
                          form[i] # "" /\ \A j \in 1..(i - 1) : form[j] # form[i]], 1, n)
    IN  /\ Len(out) = Len(first)
        /\ \A k \in 1..Len(out) : out[k] = trim(parts[first[k]])
        /\ \A k, l \in 1..Len(out) : k # l => NormalForm(out[k]) # NormalForm(out[l])
        /\ NormalForm(TrailingFragment(txt)) # "" =>
             \E k \in 1..Len(out) : NormalForm(out[k]) = NormalForm(TrailingFragment(txt))

\* Repeated sentences are dropped, in whatever casing and spacing, and the
\* fragment at the end is kept.
C8_Witness ==
  /\ stage = "dedupe"
  /\ txt = "Olá!  olá! Tudo bem?\nTUDO   BEM? sim¤ fim"
  /\ out = <<"Olá!", "Tudo bem?", "sim¤", "fim">>

\* TRUE for a text made of words of letters with one space between them.
PlainWords(s) ==
  /\ s # ""
  /\ \A i \in 1..Len(s) : Ch(s, i) \in Chars(LowerLetters \o UpperLetters \o " ")
  /\ Ch(s, 1) # " " /\ Ch(s, Len(s)) # " "
  /\ \A i \in 1..(Len(s) - 1) : ~(Ch(s, i) = " " /\ Ch(s, i + 1) = " ")

\* The words ws without those that repeat the word before them, ignoring case.
withoutRepeats(ws) ==
  LET keep == Where([i \in 1..Len(ws) |->
                       i = 1 \/ toLowerCase(ws[i]) # toLowerCase(ws[i - 1])], 1, Len(ws))
  IN  [k \in 1..Len(keep) |-> ws[keep[k]]]

\* C9: post-processing reduces every word repeated in a row, whatever its
\* casing and its letters, to its first occurrence, and removes nothing
\* else of a word.
C9_RepeatedWordsCollapse ==
  (stage = "postProcess" /\ PlainWords(txt)) =>
    out[1] = join(withoutRepeats(split(txt)), " ")

NameChars == Chars(LowerAscii \o UpperAscii \o Digits \o "_-.")

\* C10: the file name of the Content-Disposition header is never empty and
\* holds ASCII letters, digits, underscores, hyphens and periods only.
C10_SafeFilename ==
  (pc = "done" /\ res.status = 200) =>
    /\ res.filename # ""
    /\ \A i \in 1..Len(res.filename) : Ch(res.filename, i) \in NameChars

\* The answer to a request that names its file "report name!@#.pdf".
C10_Witness ==
  /\ pc = "done"
  /\ res.status = 200
  /\ Field(body, "filename", Undefined) = Str("report name!@#.pdf")
  /\ res.filename = "report_name___.pdf"

(***************************************************************************)
(* The response headers.                                                   *)
(***************************************************************************)

\* The Content-Type that corresponds to the format f, "" when f is none of
\* the four formats.
typeOfFormat(f) ==
  CASE f = Str("txt") -> "text/plain; charset=utf-8"
    [] f = Str("md") -> "text/markdown; charset=utf-8"
    [] f = Str("csv") -> "text/csv; charset=utf-8"
    [] f = Str("pdf") -> "application/pdf"
    [] OTHER -> ""

\* C11: every 200 response to POST /api/generate declares the Content-Type
\* of the request's format (txt, md, csv or pdf), whatever the contentType.
C11_ContentTypeOfFormat ==
  (pc = "done" /\ res.status = 200 /\ typeOfFormat(formatOf(variant, body)) # "")
    => res.contentType = typeOfFormat(formatOf(variant, body))

\* C19: every 200 response has Content-Disposition inline when the format
\* is pdf and attachment for every other format, in every server.
C19_InlineOnlyForPdf ==
  (pc = "done" /\ res.status = 200)
    => res.disposition = IF formatOf(variant, body) = Str("pdf")
                         THEN "inline" ELSE "attachment"

\* The first line of s: what precedes the first line break.
firstLine(s) ==
  LET ends == {i \in 1..Len(s) : Ch(s, i) \in {"\n", "\r"}}
  IN  IF ends = {} THEN s ELSE SubSeq(s, 1, Min(ends) - 1)

\* C12: when contentType is planilha and the content is the local
\* generator's, the first line of the body is the quoted header row
\* Titulo,Resumo,PalavrasChave, unless the request names format pdf or txt.
C12_SpreadsheetHeaderFirst ==
  (/\ pc = "done"
   /\ res.status = 200
   /\ variant \in FullVariants
   /\ contentTypeOf(variant, body) = Str("planilha")
   /\ source = "local"
   /\ Field(body, "format", Str("")) \notin {Str("pdf"), Str("txt")})
    => firstLine(res.body) = "\"Titulo\",\"Resumo\",\"PalavrasChave\""

\* C20: whatever fields the request holds (missing, null, of another type,
\* zero, negative or huge sizes), the local generator returns a string: the
\* handler never stays in one of its loops.
C20_LocalGeneratorReturns == pc # "looping"

\* C18: for format=pdf, in every server, nothing of the response, header or
\* body, is written before the document has ended.
C18_NothingBeforeEnd ==
  pc = "rendering" => (~headersSent /\ res = NoResponse)

\* C13: every response to POST /api/generate has status 200, or status 500
\* with the fields error and detail; no other status is returned for that
\* route, also when the caller is past the request rate or the payload is
\* malformed or oversized.
C13_GenerateAnswers200Or500 ==
  (pc = "done" /\ req.method = "POST" /\ req.path = "/api/generate")
    => \/ res.status = 200
       \/ res.status = 500 /\ {"error", "detail"} \subseteq DOMAIN res

\* C14: every GET /health, after any earlier requests and with any Origin
\* header, is answered with status 200 and ok = true.
C14_HealthAlwaysOk ==
  (pc = "done" /\ req.method = "GET" /\ req.path = "/health")
    => (res.status = 200 /\ res.ok)

\* C15: an OPTIONS request to any path, with any Origin and after any number
\* of requests, is answered with status 204 and an
\* Access-Control-Allow-Methods header that contains GET, POST and OPTIONS.
C15_PreflightAlways204 ==
  (pc = "done" /\ req.method = "OPTIONS")
    => /\ res.status = 204
       /\ \A m \in {"GET", "POST", "OPTIONS"} : includes(resCors.allowMethods, m)

\* The servers that read ALLOWED_ORIGINS.
listServer(v) == corsStack(v) \in {"list", "suffix", "callback"}

\* C16: with a non-empty allowed list, the response has an
\* Access-Control-Allow-Origin header only if the Origin of the request is
\* listed or, in the servers with suffixes, its hostname ends with one of
\* them, and the header then is that Origin, never "*"; with an empty list
\* every origin is permitted.
C16_AllowOriginOnlyListed ==
  (stage = "cors" /\ listServer(variant))
    => IF allowed # <<>>
       THEN resCors.allowOrigin # ""
              => /\ resCors.allowOrigin = req.origin
                 /\ resCors.allowOrigin # "*"
                 /\ \/ listed(allowed, req.origin)
                    \/ corsStack(variant) = "suffix" /\ okSuf(hostnameOnBase(req.origin))
       ELSE req.origin # "" => resCors.allowOrigin \in {"*", req.origin}

\* An origin of the hosting platform, not listed, is given its header back.
C16_Witness ==
  /\ stage = "cors"
  /\ variant = "seoReal"
  /\ allowed = <<"https://app.example">>
  /\ req.origin = "https://user.replit.dev"
  /\ req.method = "POST"
  /\ resCors.allowOrigin = "https://user.replit.dev"

\* C17: an exception raised while POST /api/generate is handled, in the
\* generation or in the rendering of the PDF, reaches the final error
\* handler: when no header has been sent the response is a 500 with the
\* fields error and detail, otherwise the response stays as it is.
C17_ExceptionsReachHandler ==
  [][(\/ pc = "generate" /\ throwsAt(variant, body) = "generate" /\ pc' # pc
      \/ pc = "local" /\ throwsAt(variant, body) = "local" /\ pc' # pc
      \/ \E m \in RenderErrors : PdfError(m))
       => /\ pc' = "done"
          /\ IF headersSent THEN res' = res
             ELSE res'.status = 500 /\ {"error", "detail"} \subseteq DOMAIN res']_vars

\* A second local generation for the request that was noted.
sameRequestAgain ==
  /\ stage = "noted"
  /\ pc = "ready"
  /\ source = "local"
  /\ body = out[1].body

C22_TemperatureInUnit ==
  \A i \in 1..Len(calls) :
    LET t == calls[i].temperature
    IN  "tenths" \in DOMAIN t /\ t.tenths \in 0..10

\* C27: the model of every provider call is the request's aiModel when one
\* is supplied, otherwise the one of the environment, otherwise the default.
C27_ModelPrecedence ==
  \A i \in 1..Len(calls) :
    calls[i].model =
      IF Field(body, "aiModel", Undefined) # Undefined THEN body.aiModel
      ELSE IF envModel # "" THEN Str(envModel)
      ELSE Str("gpt-4o-mini")

\* C23: when the provider's text is taken, it is not empty, whatever size the
\* request asks for, and the reply it came from was not empty or missing.
C23_RemoteTextNonEmpty ==
  (pc = "ready" /\ source = "remote")
    => (content # "" /\ trimmedText(calls[Len(calls)].reply) # "")

\* The provider calls of the request that went to the given end.
callsTo(to) == {i \in 1..Len(calls) : calls[i].to = to}

\* C24: while a request is handled at most one content call is made, and at
\* most one keyword call, which only the SEO servers make; a call that was
\* rejected is not made again: the local generator takes over.
C24_NoRetry ==
  /\ Cardinality(callsTo("content")) <= 1
  /\ Cardinality(callsTo("keywords")) <= IF variant \in SeoVariants THEN 1 ELSE 0
  /\ (calls # <<>> /\ calls[Len(calls)].to = "content" /\ calls[Len(calls)].reply = Throws)
       => (pc \in {"local", "looping"} \/ source = "local")

\* An SEO server answered from the local generator after its keyword call
\* and its content call were both rejected.
C24_Witness ==
  /\ pc = "done"
  /\ variant \in SeoVariants
  /\ Len(calls) = 2
  /\ calls[1].reply = Throws
  /\ calls[2].reply = Throws
  /\ source = "local"
  /\ res.status = 200

\* C25: a request whose contentType is 'planilha' is answered through the
\* CSV branch whatever its format: the answer is text/csv and its body is
\* the table with the byte-order mark and CRLF line ends.
C25_SpreadsheetIsCsv ==
  (pc = "done" /\ res.status = 200 /\ contentTypeOf(variant, body) = Str("planilha"))
    => /\ res.contentType = "text/csv; charset=utf-8"
       /\ res.body = toCsvUtf8Bom(extractCsvFromMarkdown(content))

\* C26: when the answer is delivered as text/csv, the table the generator
\* returned reaches the CSV formatter unaltered: postProcess leaves it as
\* it is.
C26_TableUntouched ==
  [][(pc = "ready" /\ pc' = "done" /\ res'.contentType = "text/csv; charset=utf-8")
       => content' = content]_vars

\* The keywords of the request are settled: generation has them.
keywordsSettled == variant \in SeoVariants /\ pc \in {"content", "local", "ready", "done"}

\* The caller's secondary keywords, as gerarConteudo reads them.
suppliedSec == secListIn(Field(body, "secondaryKeywords", Str("")))

\* C28: in the SEO servers the list of secondary keywords used for the
\* generation holds at least 8 entries that are not empty.
C28_EightKeywords ==
  keywordsSettled =>
    Cardinality({i \in 1..Len(finalSec) : finalSec[i] # ""}) >= minSec

\* C29: in the SEO servers every secondary keyword the caller supplied is in
\* the list used for the generation, also when keywords were synthesised.
C29_SuppliedKept ==
  keywordsSettled =>
    \A i \in 1..Len(suppliedSec) : \E j \in 1..Len(finalSec) : finalSec[j] = suppliedSec[i]

\* C30: a request answered as PDF gets exactly one response, in whatever
\* order the document's 'data', 'error' and 'end' callbacks come: once a
\* callback has answered, the request has a 200 or a 500, and the callback
\* that comes after it changes neither the status nor the content type.
C30_OnePdfResponse ==
  /\ [](doc \in {"ended", "errored", "closed"} => (headersSent /\ res.status \in {200, 500}))
  /\ [][(headersSent /\ doc \in {"open", "ended", "errored"} /\ doc' \in {"ended", "errored", "closed"})
          => (res'.status = res.status /\ res'.contentType = res.contentType)]_vars

\* Both callbacks of one document came, the 'error' one first: the request
\* keeps its 500.
C30_Witness ==
  /\ doc = "closed"
  /\ ~piped(variant)
  /\ res.status = 500
  /\ content # ""
====
